---- MODULE Spec2Model ----
(***************************************************************************)
(* Claudio signaling server: room presence registry and signaling relay.   *)
(*                                                                         *)
(* The repository holds several variants of the relay.  Each variant is a  *)
(* set of handlers over the same state variables and has its own           *)
(* specification:                                                          *)
(*   Spec        src/unnamed/part_003  (Map registry, leave-previous)      *)
(*   SpecSet     src/unnamed/part_002  (Set registry, toggle-audio)        *)
(*   SpecOrigin  src/unnamed/part_001  lines 331-424 (ALLOW_ORIGIN)        *)
(*                                                                         *)
(* Strings are sequences of one-character strings, so that upper-casing    *)
(* and truncation are computed.  A falsy value (undefined, "") is <<>>.    *)
(***************************************************************************)
EXTENDS Integers, Sequences, FiniteSets, TLC

VARIABLES
    variant,    \* which relay is running: "map" | "set" | "origin"
    status,     \* connection -> "idle" | "open" | "closed"
    rooms,      \* the registry: room id -> members (shape depends on variant)
    sockData,   \* connection -> sock.data
    sockRooms,  \* connection -> socket.rooms, in insertion order
    emitted,    \* emissions of the handler invocation that just ran, in order
    joined,     \* history: connection -> room of its most recent accepted join-room
    inbox,      \* history: connection -> presence events received so far, in order
    mut,        \* history: number of presence handler invocations recorded so far
    asked,      \* history: connection -> room id as written in its last accepted join-room
    fault,      \* TRUE once a handler has thrown with nothing to catch it
    sdpIn,      \* the session description handed to the normalizer, as lines
    sdpOut,     \* the results of the successive applications of the normalizer
    test        \* the run of runSelfTest: its position, its two peers, its outcome

\* what the relay's handlers never touch: the normalizer applied on its own
aside == <<sdpIn, sdpOut, test>>

\* what a handler that returns normally leaves alone, unless a specification records it
hist == <<inbox, mut, asked, fault, aside>>

vars == <<variant, status, rooms, sockData, sockRooms, emitted, joined, inbox, mut, asked, fault,
          sdpIn, sdpOut, test>>

----------------------------------------------------------------------------
(* Bounds *)

MaxConns == 2
MaxMut == 3

----------------------------------------------------------------------------
(* Program constants *)

MaxRoomLen == 12
MaxNameLen == 24
MaxMsgLen == 240
MaxChatLen == 200

----------------------------------------------------------------------------
(* Strings *)

Undefined == <<>>

Falsy(s) == s = <<>>

Min(a, b) == IF a < b THEN a ELSE b

Slice(s, n) == SubSeq(s, 1, Min(Len(s), n))

UpperOf(ch) ==
    CASE ch = "a" -> "A"
      [] ch = "b" -> "B"
      [] ch = "c" -> "C"
      [] OTHER -> ch

\* a text in which upper-casing has been skipped
KeepCase(s) == s

ToUpperCase(s) == [i \in 1..Len(s) |-> UpperOf(s[i])]

\* socket.io connection ids are 20 characters, longer than any room id
SidLen == MaxRoomLen + 8

Digits == <<"1", "2", "3", "4", "5", "6", "7", "8", "9">>

Sid(n) == [i \in 1..SidLen |-> IF i = SidLen THEN Digits[n] ELSE "x"]

Conns == {Sid(n) : n \in 1..MaxConns}

Star == <<"*">>

\* a value that is not a string, such as the number 42 (it has no .slice)
NumberValue == <<"42">>

Range(q) == {q[i] : i \in 1..Len(q)}

\* every order in which the elements of S can be visited
Orders(S) == {q \in [1..Cardinality(S) -> S] : Range(q) = S}

----------------------------------------------------------------------------
(* Inputs *)

RoomIdInputs == {<<>>, <<"a">>, <<"B">>}

NameInputs == {<<>>, <<"a", "n", "n">>}

InstrumentInputs == {<<>>}

NoData == [kind |-> "none"]

Candidate == [kind |-> "candidate"]

DataInputs == {NoData, Candidate}

RoomIds == {Slice(ToUpperCase(r), MaxRoomLen) : r \in RoomIdInputs \ {<<>>}}

\* roomcast / chat-message messages: to each room, and one with each field missing
CastInputs ==
    {[roomId |-> r, message |-> <<"h", "i">>] : r \in RoomIds \cup {Undefined}}
    \cup {[roomId |-> <<"A">>, message |-> Undefined]}

\* signal messages of part_003: to a connection or to "*", stating a room id
\* or the target's own connection id, and one with each field missing
SignalInputs ==
    {[to |-> t, roomId |-> <<"A">>, data |-> Candidate] : t \in Conns \cup {Star}}
    \cup {[to |-> t, roomId |-> t, data |-> Candidate] : t \in Conns}
    \cup {[to |-> Star, roomId |-> Undefined, data |-> Candidate],
          [to |-> Star, roomId |-> <<"A">>, data |-> NoData]}

NoRoom == <<>>

----------------------------------------------------------------------------
(* socket.io semantics *)

\* a room fan-out that reaches every connection
Everyone(sr, name) == Conns

\* io.sockets.adapter.rooms.get(name): the sockets whose socket.rooms has `name`
AdapterRoom(sr, name) == {c \in Conns : name \in Range(sr[c])}

\* socket.join(name) / socket.leave(name) on one socket's rooms
SockJoin(rs, name) == IF name \in Range(rs) THEN rs ELSE Append(rs, name)

SockLeave(rs, name) == SelectSeq(rs, LAMBDA x : x # name)

PresenceEvents == {"joined-room", "user-joined", "users-updated", "user-left"}

PutLast(q, x) == Append(q, x)

PutFirst(q, x) == <<x>> \o q

\* the transport delivers to each connection in emission order
Enqueue(q, x) == PutLast(q, x)

\* history: append the presence events of `ems` to their targets' inboxes,
\* stamped with the number `n` of the handler invocation that emitted them
RECURSIVE Deliver(_, _, _)
Deliver(inb, ems, n) ==
    IF ems = << >> THEN inb
    ELSE LET e == Head(ems)
             inb1 == [c \in Conns |->
                        IF c \in e.to /\ e.name \in PresenceEvents
                        THEN Enqueue(inb[c], [name |-> e.name, room |-> e.room, seq |-> n])
                        ELSE inb[c]]
         IN Deliver(inb1, Tail(ems), n)

\* one emission: event `name` with `payload` to the connections `to`;
\* `room` is the room whose presence the event reports, NoRoom for the others
Emit(name, to, room, payload) ==
    [name |-> name, to |-> to, room |-> room, payload |-> payload]

----------------------------------------------------------------------------
(* Registry helpers, part_003 *)

getUsers(rs, roomId) ==
    IF roomId \in DOMAIN rs THEN {rs[roomId][id] : id \in DOMAIN rs[roomId]} ELSE {}

KeepEmpty(rs, roomId) == rs

\* if (m.size === 0) rooms.delete(roomId)
DropEmpty(rs, roomId) ==
    IF DOMAIN rs[roomId] = {} THEN [r \in DOMAIN rs \ {roomId} |-> rs[r]] ELSE rs

KeepMember(rs, roomId, id) == rs

\* m.delete(id); if (m.size === 0) rooms.delete(roomId)
DeleteMember(rs, roomId, id) ==
    DropEmpty([rs EXCEPT ![roomId] = [k \in DOMAIN @ \ {id} |-> @[k]]], roomId)

\* if (!rooms.has(roomId)) rooms.set(roomId, new Map()); rooms.get(roomId).set(id, u)
SetMember(rs, roomId, id, u) ==
    LET m == IF roomId \in DOMAIN rs THEN rs[roomId] ELSE << >>
        m1 == [k \in DOMAIN m \cup {id} |-> IF k = id THEN u ELSE m[k]]
    IN [r \in DOMAIN rs \cup {roomId} |-> IF r = roomId THEN m1 ELSE rs[r]]

\* a users-updated that carries the list as it was before the handler ran
broadcastCached(rs, sr, roomId) ==
    Emit("users-updated", AdapterRoom(sr, roomId), roomId, [users |-> getUsers(rooms, roomId)])

\* io.to(roomId).emit('users-updated', { users: getUsers(roomId) })
broadcastUsers(rs, sr, roomId) ==
    Emit("users-updated", AdapterRoom(sr, roomId), roomId, [users |-> getUsers(rs, roomId)])

DefaultName == <<"m", "u", "s", "i", "c", "i", "a", "n">>
DefaultInstrument == <<"g", "u", "i", "t", "a", "r">>
DefaultUser == <<"u", "s", "e", "r">>

----------------------------------------------------------------------------
(* Init *)

\* no self-test has been asked for
NoTest == [at |-> "idle"]

InitAside ==
    /\ sdpIn = << >>
    /\ sdpOut = << >>
    /\ test = NoTest

InitRelayHist ==
    /\ inbox = [c \in Conns |-> << >>]
    /\ mut = 0
    /\ asked = [c \in Conns |-> << >>]
    /\ fault = FALSE

InitHist ==
    /\ InitRelayHist
    /\ InitAside

InitProg ==
    /\ status = [c \in Conns |-> "idle"]
    /\ rooms = << >>
    /\ sockData = [c \in Conns |-> << >>]
    /\ sockRooms = [c \in Conns |-> << >>]
    /\ emitted = << >>
    /\ joined = [c \in Conns |-> NoRoom]

Init ==
    /\ variant = "map"
    /\ InitProg
    /\ InitHist

----------------------------------------------------------------------------
(* Handlers, part_003 *)

\* io.on('connection'): the socket is in the room named by its own id
Connect(sock) ==
    /\ status[sock] = "idle"
    /\ status' = [status EXCEPT ![sock] = "open"]
    /\ sockData' = [sockData EXCEPT ![sock] =
                      [username |-> Undefined, instrument |-> Undefined, roomId |-> Undefined]]
    /\ sockRooms' = [sockRooms EXCEPT ![sock] = <<sock>>]
    /\ emitted' = << >>
    /\ UNCHANGED <<variant, rooms, joined>>

\* (username || 'musician').slice(0, 24) throws when username is truthy and
\* not a string; the catch reports it to the requester, nothing else has run
JoinRoom(sock, rid, uname, instr) ==
    /\ status[sock] = "open"
    /\ IF Falsy(rid)
       THEN /\ emitted' = << >>
            /\ UNCHANGED <<variant, status, rooms, sockData, sockRooms, joined>>
       ELSE IF uname = NumberValue \/ instr = NumberValue
       THEN /\ emitted' = << Emit("error", {sock}, NoRoom, [message |-> "join-room failed"]) >>
            /\ UNCHANGED <<variant, status, rooms, sockData, sockRooms, joined>>
       ELSE LET roomId == Slice(ToUpperCase(rid), MaxRoomLen)
                username == Slice(IF Falsy(uname) THEN DefaultName ELSE uname, MaxNameLen)
                instrument == Slice(IF Falsy(instr) THEN DefaultInstrument ELSE instr, MaxNameLen)
                prevId == sockData[sock].roomId
                leaving == ~Falsy(prevId) /\ prevId # roomId
                hasPrev == leaving /\ prevId \in DOMAIN rooms
                rooms1 == IF hasPrev THEN DeleteMember(rooms, prevId, sock) ELSE rooms
                em1 == IF hasPrev
                       THEN << Emit("user-left", AdapterRoom(sockRooms, prevId), prevId,
                                    [id |-> sock, username |-> sockData[sock].username,
                                     users |-> getUsers(rooms1, prevId)]),
                               broadcastUsers(rooms1, sockRooms, prevId) >>
                       ELSE << >>
                sockRooms1 == IF leaving
                              THEN [sockRooms EXCEPT ![sock] = SockLeave(@, prevId)]
                              ELSE sockRooms
                sockRooms2 == [sockRooms1 EXCEPT ![sock] = SockJoin(@, roomId)]
                user == [id |-> sock, username |-> username, instrument |-> instrument]
                rooms2 == SetMember(rooms1, roomId, sock, user)
                em2 == << Emit("joined-room", {sock}, roomId,
                               [roomId |-> roomId, users |-> getUsers(rooms2, roomId), selfId |-> sock]),
                          Emit("user-joined", AdapterRoom(sockRooms2, roomId) \ {sock}, roomId,
                               [user |-> user, users |-> getUsers(rooms2, roomId)]),
                          broadcastUsers(rooms2, sockRooms2, roomId) >>
            IN /\ sockData' = [sockData EXCEPT ![sock] =
                                 [username |-> username, instrument |-> instrument, roomId |-> roomId]]
               /\ joined' = [joined EXCEPT ![sock] = roomId]
               /\ sockRooms' = sockRooms2
               /\ rooms' = rooms2
               /\ emitted' = em1 \o em2
               /\ UNCHANGED <<variant, status>>

\* sock.on('roomcast') and its legacy alias sock.on('chat-message')
Cast(sock, evname, roomId, message) ==
    /\ status[sock] = "open"
    /\ IF Falsy(roomId) \/ Falsy(message)
       THEN emitted' = << >>
       ELSE LET username == IF Falsy(sockData[sock].username) THEN DefaultUser
                            ELSE sockData[sock].username
            IN emitted' = << Emit(evname, AdapterRoom(sockRooms, roomId), NoRoom,
                                  [username |-> username, message |-> Slice(message, MaxMsgLen)]) >>
    /\ UNCHANGED <<variant, status, rooms, sockData, sockRooms, joined>>

Roomcast(sock, roomId, message) == Cast(sock, "roomcast", roomId, message)

ChatMessage(sock, roomId, message) == Cast(sock, "chat-message", roomId, message)

\* a relay that would spread the client's data over the event
SpreadEvent(id, data) == [from |-> IF "from" \in DOMAIN data THEN data.from ELSE id, data |-> data]

\* { from: sock.id, data }
SignalEvent(id, data) == [from |-> id, data |-> data]

Signal(sock, to, roomId, data) ==
    /\ status[sock] = "open"
    /\ IF Falsy(roomId) \/ data = NoData
       THEN emitted' = << >>
       ELSE IF to = Star
       THEN LET set == AdapterRoom(sockRooms, roomId)
            IN emitted' = IF set \ {sock} = {} THEN << >>
                          ELSE << Emit("signal", set \ {sock}, NoRoom, SignalEvent(sock, data)) >>
       ELSE IF to \in Conns /\ status[to] = "open" /\ roomId \in Range(sockRooms[to])
       THEN emitted' = << Emit("signal", {to}, NoRoom, SignalEvent(sock, data)) >>
       ELSE emitted' = << >>
    /\ UNCHANGED <<variant, status, rooms, sockData, sockRooms, joined>>

Ping(sock, ts) ==
    /\ status[sock] = "open"
    /\ emitted' = << Emit("pong", {sock}, NoRoom, [ts |-> ts]) >>
    /\ UNCHANGED <<variant, status, rooms, sockData, sockRooms, joined>>

\* the socket has left every adapter room before 'disconnect' is dispatched,
\* and it is gone from io.sockets.sockets: nothing reads its data afterwards
Disconnect(sock) ==
    /\ status[sock] = "open"
    /\ status' = [status EXCEPT ![sock] = "closed"]
    /\ sockRooms' = [sockRooms EXCEPT ![sock] = << >>]
    /\ joined' = [joined EXCEPT ![sock] = NoRoom]
    /\ LET roomId == sockData[sock].roomId
       IN IF ~Falsy(roomId) /\ roomId \in DOMAIN rooms
          THEN LET rooms1 == DeleteMember(rooms, roomId, sock)
                   left == [sockRooms EXCEPT ![sock] = << >>]
               IN /\ rooms' = rooms1
                  /\ emitted' =
                       << Emit("user-left", AdapterRoom(left, roomId) \ {sock}, roomId,
                               [id |-> sock, username |-> sockData[sock].username,
                                users |-> getUsers(rooms1, roomId)]),
                          broadcastUsers(rooms1, left, roomId) >>
          ELSE /\ emitted' = << >>
               /\ UNCHANGED rooms
    /\ sockData' = [sockData EXCEPT ![sock] = << >>]
    /\ UNCHANGED variant

Next ==
    \/ \E sock \in Conns : Connect(sock) /\ UNCHANGED hist
    \/ \E sock \in Conns, rid \in RoomIdInputs, uname \in NameInputs, instr \in InstrumentInputs :
          JoinRoom(sock, rid, uname, instr) /\ UNCHANGED hist
    \/ \E sock \in Conns, m \in CastInputs :
          Roomcast(sock, m.roomId, m.message) /\ UNCHANGED hist
    \/ \E sock \in Conns, m \in CastInputs :
          ChatMessage(sock, m.roomId, m.message) /\ UNCHANGED hist
    \/ \E sock \in Conns, m \in SignalInputs :
          Signal(sock, m.to, m.roomId, m.data) /\ UNCHANGED hist
    \/ \E sock \in Conns, ts \in {0} : Ping(sock, ts) /\ UNCHANGED hist
    \/ \E sock \in Conns : Disconnect(sock) /\ UNCHANGED hist

Spec == Init /\ [][Next]_vars

----------------------------------------------------------------------------
(* SDP normalizer, part_002.  A session description is its sequence of      *)
(* lines (the text split at "\n"); a payload type is its sequence of digits *)

Pt0 == <<"0">>
Pt111 == <<"1", "1", "1">>

OpusCodec == "opus/48000/2"

\* "m=<media> <port> <proto> <pts ...>"
MLine(media, port, proto, pts) ==
    [t |-> "m", media |-> media, port |-> port, proto |-> proto, pts |-> pts]

\* "a=rtpmap:<pt> <codec>"
Rtpmap(pt, codec) == [t |-> "rtpmap", pt |-> pt, codec |-> codec]

\* "a=fmtp:<pt> <k>=<v>;<k>=<v>..."
Fmtp(pt, params) == [t |-> "fmtp", pt |-> pt, params |-> params]

Param(k, v) == [k |-> k, v |-> v]

EmptyLine == [t |-> "empty"]

\* "a=<lead><text of the line inner>": an attribute whose value spells a line
Attr(lead, inner) == [t |-> "attr", lead |-> lead, inner |-> inner]

\* the first index at which the sequence of booleans `hits` is TRUE, 0 if none
FirstTrue(hits) ==
    IF \E i \in 1..Len(hits) : hits[i]
    THEN CHOOSE i \in 1..Len(hits) : hits[i] /\ \A j \in 1..(i - 1) : ~hits[j]
    ELSE 0

\* text.startsWith(prefix), on digit sequences
StartsWith(text, prefix) ==
    Len(prefix) <= Len(text) /\ SubSeq(text, 1, Len(prefix)) = prefix

\* sdp.match(/^m=audio .+$/m)
IsAudioLine(l) == l.t = "m" /\ l.media = "audio"

\* any payload-type mapping line, whatever its codec
IsRtpmap(l) == l.t = "rtpmap"

\* sdp.match(/^a=rtpmap:(\d+)\s+opus\/48000\/2$/m)
IsOpusRtpmap(l) == l.t = "rtpmap" /\ l.codec = OpusCodec

\* the text "a=fmtp:<pt>" occurs in the line: any fmtp line whose payload
\* type begins with the digits of pt
MentionsFmtp(l, pt) == l.t = "fmtp" /\ StartsWith(l.pt, pt)

\* line.includes("ptime="): true of minptime= and maxptime= as well
IncludesPtime(l) == \E i \in 1..Len(l.params) : l.params[i].k \in {"ptime", "minptime", "maxptime"}

\* the line appended when no fmtp line mentions pt
LowLatencyFmtp(pt) ==
    Fmtp(pt, << Param("minptime", "10"), Param("useinbandfec", "1"), Param("stereo", "0"),
                Param("cbr", "1"), Param("maxplaybackrate", "48000"), Param("ptime", "10") >>)

\* [parts[0], parts[1], parts[2], pt, ...parts.slice(3).filter(p => p !== pt)].join(" ")
Fixed(mline, pt) == [mline EXCEPT !.pts = <<pt>> \o SelectSeq(@, LAMBDA x : x # pt)]

\* the text of `mline` occurs in the line l: l is that line, or spells it
Contains(l, mline) == l = mline \/ (l.t = "attr" /\ l.inner = mline)

\* sdp.replace(mline, fixed): a string pattern replaces the first occurrence
\* of the text of mline, in whichever line that is. (The texts used here
\* hold no "$", and no m-line is the beginning of a longer one before it.)
Replace(sdp, mline, fixed) ==
    LET ci == FirstTrue([i \in 1..Len(sdp) |-> Contains(sdp[i], mline)])
    IN [sdp EXCEPT ![ci] = IF @.t = "attr" THEN [@ EXCEPT !.inner = fixed] ELSE fixed]

preferOpus(sdp) ==
    LET mi == FirstTrue([i \in 1..Len(sdp) |-> IsAudioLine(sdp[i])])
        ri == FirstTrue([i \in 1..Len(sdp) |-> IsOpusRtpmap(sdp[i])])
    IN IF mi = 0 \/ ri = 0 THEN sdp
       ELSE LET pt == sdp[ri].pt
                sdp1 == Replace(sdp, sdp[mi], Fixed(sdp[mi], pt))
                fi == FirstTrue([i \in 1..Len(sdp1) |-> MentionsFmtp(sdp1[i], pt)])
            IN IF fi = 0
               THEN sdp1 \o << LowLatencyFmtp(pt), EmptyLine >>
               ELSE IF IncludesPtime(sdp1[fi]) THEN sdp1
               ELSE [sdp1 EXCEPT ![fi].params = Append(@, Param("ptime", "10"))]

\* the line the copy of part_004 appends
HarnessFmtp(pt) ==
    Fmtp(pt, << Param("minptime", "10"), Param("useinbandfec", "1"), Param("cbr", "1"),
                Param("ptime", "10") >>)

\* preferOpus of part_004: the same steps, without the else branch
preferOpusHarness(sdp) ==
    LET mi == FirstTrue([i \in 1..Len(sdp) |-> IsAudioLine(sdp[i])])
        ri == FirstTrue([i \in 1..Len(sdp) |-> IsOpusRtpmap(sdp[i])])
    IN IF mi = 0 \/ ri = 0 THEN sdp
       ELSE LET pt == sdp[ri].pt
                sdp1 == Replace(sdp, sdp[mi], Fixed(sdp[mi], pt))
            IN IF \E i \in 1..Len(sdp1) : MentionsFmtp(sdp1[i], pt)
               THEN sdp1
               ELSE sdp1 \o << HarnessFmtp(pt), EmptyLine >>

\* signal payloads that carry a session description: data.sdp = { type, sdp }
SdpData(type, sdp) == [kind |-> "sdp", type |-> type, sdp |-> sdp]

\* if (data?.sdp?.sdp) data.sdp.sdp = preferOpus(data.sdp.sdp)
Munge(data) ==
    IF data.kind = "sdp" THEN (IF data.sdp = << >> THEN data ELSE [data EXCEPT !.sdp = preferOpus(@)])
    ELSE data

\* an offer with PCMU listed before opus and no fmtp line, and one without opus
SdpOpusSecond ==
    << MLine("audio", "9", "UDP/TLS/RTP/SAVPF", <<Pt0, Pt111>>),
       Rtpmap(Pt0, "PCMU/8000"), Rtpmap(Pt111, OpusCodec) >>

SdpNoOpus == << MLine("audio", "9", "UDP/TLS/RTP/SAVPF", <<Pt0>>), Rtpmap(Pt0, "PCMU/8000") >>

Offer == SdpData("offer", SdpOpusSecond)

OfferNoOpus == SdpData("offer", SdpNoOpus)

----------------------------------------------------------------------------
(* Handlers, part_002: registry of Sets, participant record on the socket *)

NoUser == [id |-> Undefined, username |-> Undefined, instrument |-> Undefined, audioEnabled |-> FALSE]

\* [...set].map((id) => io.sockets.sockets.get(id)?.data.user).filter(Boolean)
usersOfSet(set, sd) == {sd[id].user : id \in set} \ {NoUser}

InitSet ==
    /\ variant = "set"
    /\ InitProg
    /\ InitHist

ConnectSet(socket) ==
    /\ status[socket] = "idle"
    /\ status' = [status EXCEPT ![socket] = "open"]
    /\ sockData' = [sockData EXCEPT ![socket] = [user |-> NoUser]]
    /\ sockRooms' = [sockRooms EXCEPT ![socket] = <<socket>>]
    /\ emitted' = << >>
    /\ UNCHANGED <<variant, rooms, joined>>

JoinRoomSet(socket, rid, uname, instr) ==
    /\ status[socket] = "open"
    /\ LET roomId == Slice(ToUpperCase(rid), MaxRoomLen)
       IN IF Falsy(roomId)
          THEN /\ emitted' = << >>
               /\ UNCHANGED <<variant, status, rooms, sockData, sockRooms, joined>>
          ELSE LET set == (IF roomId \in DOMAIN rooms THEN rooms[roomId] ELSE {}) \cup {socket}
                   rooms1 == [r \in DOMAIN rooms \cup {roomId} |->
                                IF r = roomId THEN set ELSE rooms[r]]
                   user == [id |-> socket,
                            username |-> IF Falsy(uname) THEN DefaultUser ELSE uname,
                            instrument |-> IF Falsy(instr) THEN DefaultInstrument ELSE instr,
                            audioEnabled |-> FALSE]
                   sd1 == [sockData EXCEPT ![socket] = [user |-> user]]
                   sr1 == [sockRooms EXCEPT ![socket] = SockJoin(@, roomId)]
                   users == usersOfSet(rooms1[roomId], sd1)
               IN /\ rooms' = rooms1
                  /\ sockData' = sd1
                  /\ sockRooms' = sr1
                  /\ emitted' =
                       << Emit("joined-room", {socket}, roomId, [roomId |-> roomId, users |-> users]),
                          Emit("user-joined", AdapterRoom(sr1, roomId) \ {socket}, roomId,
                               [user |-> user, users |-> users]) >>
                  /\ joined' = [joined EXCEPT ![socket] = roomId]
                  /\ UNCHANGED <<variant, status>>

\* [...socket.rooms].find((r) => r !== socket.id)
FirstRoom(rs, id) ==
    LET others == SelectSeq(rs, LAMBDA r : r # id)
    IN IF others = << >> THEN Undefined ELSE Head(others)

\* a toggle that writes the flag of every participant record
SetAudioAll(sd, socket, flag) ==
    [c \in DOMAIN sd |->
        IF status[c] = "open" /\ sd[c].user # NoUser
        THEN [user |-> [sd[c].user EXCEPT !.audioEnabled = flag]]
        ELSE sd[c]]

\* if (socket.data.user) socket.data.user.audioEnabled = !!flag
SetAudio(sd, socket, flag) ==
    IF sd[socket].user # NoUser THEN [sd EXCEPT ![socket].user.audioEnabled = flag] ELSE sd

ToggleAudioSet(socket, flag) ==
    /\ status[socket] = "open"
    /\ LET sd1 == SetAudio(sockData, socket, flag)
           roomId == FirstRoom(sockRooms[socket], socket)
       IN /\ sockData' = sd1
          /\ emitted' =
               IF ~Falsy(roomId) /\ roomId \in DOMAIN rooms
               THEN << Emit("users-updated", AdapterRoom(sockRooms, roomId), roomId,
                            [users |-> usersOfSet(rooms[roomId], sd1)]) >>
               ELSE << >>
    /\ UNCHANGED <<variant, status, rooms, sockRooms, joined>>

PingSet(socket, ts) ==
    /\ status[socket] = "open"
    /\ emitted' = << Emit("pong", {socket}, NoRoom, [ts |-> ts]) >>
    /\ UNCHANGED <<variant, status, rooms, sockData, sockRooms, joined>>

\* io.to(to).emit("signal", ...): `to` is used as a socket.io room name
SignalSet(socket, to, roomId, data) ==
    /\ status[socket] = "open"
    /\ emitted' = << Emit("signal", AdapterRoom(sockRooms, to), NoRoom,
                          SignalEvent(socket, Munge(data))) >>
    /\ UNCHANGED <<variant, status, rooms, sockData, sockRooms, joined>>

\* for (const [roomId, set] of rooms) { if (set.delete(socket.id)) { ... } }
\* `order` is the order in which the loop meets the socket's rooms
RECURSIVE LeaveAllSet(_, _, _, _, _)
LeaveAllSet(order, rs, sd, sr, socket) ==
    IF order = << >> THEN [rooms |-> rs, ems |-> << >>]
    ELSE LET roomId == Head(order)
             set == rs[roomId] \ {socket}
             users == usersOfSet(set, sd)
             ems == << Emit("user-left", AdapterRoom(sr, roomId) \ {socket}, roomId, [id |-> socket]),
                       Emit("users-updated", AdapterRoom(sr, roomId), roomId, [users |-> users]) >>
             rs1 == IF set = {} THEN [r \in DOMAIN rs \ {roomId} |-> rs[r]]
                    ELSE [rs EXCEPT ![roomId] = set]
             rest == LeaveAllSet(Tail(order), rs1, sd, sr, socket)
         IN [rooms |-> rest.rooms, ems |-> ems \o rest.ems]

DisconnectSet(socket) ==
    /\ status[socket] = "open"
    /\ status' = [status EXCEPT ![socket] = "closed"]
    /\ sockRooms' = [sockRooms EXCEPT ![socket] = << >>]
    /\ joined' = [joined EXCEPT ![socket] = NoRoom]
    /\ \E order \in Orders({r \in DOMAIN rooms : socket \in rooms[r]}) :
          LET out == LeaveAllSet(order, rooms, sockData,
                                 [sockRooms EXCEPT ![socket] = << >>], socket)
          IN /\ rooms' = out.rooms
             /\ emitted' = out.ems
    /\ sockData' = [sockData EXCEPT ![socket] = << >>]
    /\ UNCHANGED variant

FlagInputs == {TRUE, FALSE}

\* signal messages of part_002: `to` a connection id or a room id
SignalSetInputs ==
    {[to |-> t, roomId |-> <<"A">>, data |-> Candidate] : t \in Conns \cup RoomIds}
    \cup {[to |-> <<"A">>, roomId |-> Undefined, data |-> NoData]}

NextSet ==
    \/ \E socket \in Conns : ConnectSet(socket) /\ UNCHANGED hist
    \/ \E socket \in Conns, rid \in RoomIdInputs, uname \in NameInputs, instr \in InstrumentInputs :
          JoinRoomSet(socket, rid, uname, instr) /\ UNCHANGED hist
    \/ \E socket \in Conns, flag \in FlagInputs : ToggleAudioSet(socket, flag) /\ UNCHANGED hist
    \/ \E socket \in Conns, ts \in {0} : PingSet(socket, ts) /\ UNCHANGED hist
    \/ \E socket \in Conns, m \in SignalSetInputs :
          SignalSet(socket, m.to, m.roomId, m.data) /\ UNCHANGED hist
    \/ \E socket \in Conns : DisconnectSet(socket) /\ UNCHANGED hist

SpecSet == InitSet /\ [][NextSet]_vars

----------------------------------------------------------------------------
(* Handlers, part_001 lines 331-424: the ALLOW_ORIGIN relay *)

DefaultOther == <<"o", "t", "h", "e", "r">>

\* [...rooms.get(roomId).entries()].map(([id, u]) => ({ id, ...u }))
usersOf(rs, roomId) ==
    IF roomId \in DOMAIN rs
    THEN {[id |-> id, username |-> rs[roomId][id].username,
           instrument |-> rs[roomId][id].instrument,
           audioEnabled |-> rs[roomId][id].audioEnabled] : id \in DOMAIN rs[roomId]}
    ELSE {}

InitOrigin ==
    /\ variant = "origin"
    /\ InitProg
    /\ InitHist

ConnectOrigin(socket) ==
    /\ status[socket] = "idle"
    /\ status' = [status EXCEPT ![socket] = "open"]
    /\ sockData' = [sockData EXCEPT ![socket] =
                      [username |-> Undefined, instrument |-> Undefined, roomId |-> Undefined]]
    /\ sockRooms' = [sockRooms EXCEPT ![socket] = <<socket>>]
    /\ emitted' = << >>
    /\ UNCHANGED <<variant, rooms, joined>>

JoinRoomOrigin(socket, rid, uname, instr) ==
    /\ status[socket] = "open"
    /\ IF Falsy(rid) \/ Falsy(uname)
       THEN /\ emitted' = << >>
            /\ UNCHANGED <<variant, status, rooms, sockData, sockRooms, joined>>
       ELSE LET roomId == ToUpperCase(rid)
                instrument == IF Falsy(instr) THEN DefaultOther ELSE instr
                sr1 == [sockRooms EXCEPT ![socket] = SockJoin(@, roomId)]
                rooms1 == SetMember(rooms, roomId, socket,
                                    [username |-> uname, instrument |-> instrument,
                                     audioEnabled |-> TRUE])
            IN /\ sockRooms' = sr1
               /\ sockData' = [sockData EXCEPT ![socket] =
                                 [username |-> uname, instrument |-> instrument, roomId |-> roomId]]
               /\ rooms' = rooms1
               /\ emitted' =
                    << Emit("joined-room", {socket}, roomId,
                            [roomId |-> roomId, users |-> usersOf(rooms1, roomId)]),
                       Emit("user-joined", AdapterRoom(sr1, roomId) \ {socket}, roomId,
                            [user |-> [id |-> socket, username |-> uname, instrument |-> instrument],
                             users |-> usersOf(rooms1, roomId)]) >>
               /\ joined' = [joined EXCEPT ![socket] = roomId]
               /\ UNCHANGED <<variant, status>>

ToggleAudioOrigin(socket, enabled) ==
    /\ status[socket] = "open"
    /\ LET roomId == sockData[socket].roomId
       IN IF Falsy(roomId) \/ roomId \notin DOMAIN rooms
          THEN emitted' = << >> /\ UNCHANGED rooms
          ELSE IF socket \notin DOMAIN rooms[roomId]
          THEN emitted' = << >> /\ UNCHANGED rooms
          ELSE LET rooms1 == [rooms EXCEPT ![roomId][socket].audioEnabled = enabled]
               IN /\ rooms' = rooms1
                  /\ emitted' = << Emit("users-updated", AdapterRoom(sockRooms, roomId), roomId,
                                        [users |-> usersOf(rooms1, roomId)]) >>
    /\ UNCHANGED <<variant, status, sockData, sockRooms, joined>>

ChatMessageOrigin(socket, rid, message) ==
    /\ status[socket] = "open"
    /\ LET roomId == IF Falsy(rid) THEN sockData[socket].roomId ELSE rid
       IN IF Falsy(roomId) \/ Falsy(message)
          THEN emitted' = << >>
          ELSE emitted' =
                 << Emit("chat-message", AdapterRoom(sockRooms, roomId), NoRoom,
                         [userId |-> socket,
                          username |-> IF Falsy(sockData[socket].username) THEN DefaultUser
                                       ELSE sockData[socket].username,
                          message |-> Slice(message, MaxChatLen)]) >>
    /\ UNCHANGED <<variant, status, rooms, sockData, sockRooms, joined>>

PingOrigin(socket, ts) ==
    /\ status[socket] = "open"
    /\ emitted' = << Emit("pong", {socket}, NoRoom, [ts |-> ts]) >>
    /\ UNCHANGED <<variant, status, rooms, sockData, sockRooms, joined>>

SignalOrigin(socket, rid, to, data) ==
    /\ status[socket] = "open"
    /\ LET roomId == IF Falsy(rid) THEN sockData[socket].roomId ELSE rid
       IN IF Falsy(roomId)
          THEN emitted' = << >>
          ELSE IF ~Falsy(to)
          THEN emitted' = << Emit("signal", AdapterRoom(sockRooms, to), NoRoom,
                                  [from |-> socket, data |-> data]) >>
          ELSE emitted' = << Emit("signal", AdapterRoom(sockRooms, roomId) \ {socket}, NoRoom,
                                  [from |-> socket, data |-> data]) >>
    /\ UNCHANGED <<variant, status, rooms, sockData, sockRooms, joined>>

DisconnectOrigin(socket) ==
    /\ status[socket] = "open"
    /\ status' = [status EXCEPT ![socket] = "closed"]
    /\ sockRooms' = [sockRooms EXCEPT ![socket] = << >>]
    /\ joined' = [joined EXCEPT ![socket] = NoRoom]
    /\ LET roomId == sockData[socket].roomId
       IN IF Falsy(roomId) \/ roomId \notin DOMAIN rooms
          THEN emitted' = << >> /\ UNCHANGED rooms
          ELSE LET username == IF socket \in DOMAIN rooms[roomId]
                               THEN rooms[roomId][socket].username ELSE Undefined
                   rooms1 == DeleteMember(rooms, roomId, socket)
                   left == [sockRooms EXCEPT ![socket] = << >>]
               IN /\ rooms' = rooms1
                  /\ emitted' =
                       << Emit("user-left", AdapterRoom(left, roomId) \ {socket}, roomId,
                               [id |-> socket, username |-> username]),
                          Emit("users-updated", AdapterRoom(left, roomId), roomId,
                               [users |-> usersOf(rooms1, roomId)]) >>
    /\ sockData' = [sockData EXCEPT ![socket] = << >>]
    /\ UNCHANGED variant

\* signal messages of part_001: with or without `to`, with or without roomId
SignalOriginInputs ==
    {[roomId |-> r, to |-> t, data |-> Candidate] :
        r \in {Undefined, <<"A">>}, t \in Conns \cup {Undefined}}
    \cup {[roomId |-> <<"A">>, to |-> Undefined, data |-> NoData]}

NextOrigin ==
    \/ \E socket \in Conns : ConnectOrigin(socket) /\ UNCHANGED hist
    \/ \E socket \in Conns, rid \in RoomIdInputs, uname \in NameInputs, instr \in InstrumentInputs :
          JoinRoomOrigin(socket, rid, uname, instr) /\ UNCHANGED hist
    \/ \E socket \in Conns, enabled \in FlagInputs : ToggleAudioOrigin(socket, enabled) /\ UNCHANGED hist
    \/ \E socket \in Conns, m \in CastInputs :
          ChatMessageOrigin(socket, m.roomId, m.message) /\ UNCHANGED hist
    \/ \E socket \in Conns, ts \in {0} : PingOrigin(socket, ts) /\ UNCHANGED hist
    \/ \E socket \in Conns, m \in SignalOriginInputs :
          SignalOrigin(socket, m.roomId, m.to, m.data) /\ UNCHANGED hist
    \/ \E socket \in Conns : DisconnectOrigin(socket) /\ UNCHANGED hist

SpecOrigin == InitOrigin /\ [][NextOrigin]_vars

----------------------------------------------------------------------------
(* Properties of the relay of part_003 *)

\* the participants the registry `rs` (Map of Maps) lists for room r
MembersIn(rs, r) == IF r \in DOMAIN rs THEN DOMAIN rs[r] ELSE {}

\* the connections that receive anything from the emissions `ems`
Delivered(ems) == UNION {ems[i].to : i \in 1..Len(ems)}

NormalizedId(rid) == Slice(ToUpperCase(rid), MaxRoomLen)

Ids(users) == {u.id : u \in users}

\* C2: no room identifier is in the registry with an empty participant set;
\* a disconnect or room switch that removes the last participant of a room
\* deletes the room entry in the same step.
C2_NoEmptyRoom == \A r \in DOMAIN rooms : DOMAIN rooms[r] # {}

\* the last participant of a room has just left it and the room is gone
C2_LastLeft ==
    \E i \in 1..Len(emitted) :
        /\ emitted[i].name = "user-left"
        /\ emitted[i].payload.users = {}
        /\ emitted[i].room \notin DOMAIN rooms

\* C5: while a connection has had no join-room accepted, its signal and
\* room-broadcast messages deliver nothing and leave the registry unchanged.
C5_NoRoomIsNoOp ==
    [][\A sock \in Conns :
         ( /\ joined[sock] = NoRoom
           /\ \/ \E m \in CastInputs :
                    Roomcast(sock, m.roomId, m.message) \/ ChatMessage(sock, m.roomId, m.message)
              \/ \E m \in SignalInputs : Signal(sock, m.to, m.roomId, m.data) )
         => (Delivered(emitted') = {} /\ rooms' = rooms)]_vars

\* C6: on every accepted join-room the requester receives joined-room with
\* the normalized room id and a snapshot that contains itself, and exactly
\* the other current members of the room receive user-joined with the new
\* participant's attributes and the same snapshot.
C6_JoinNotifies ==
    [][\A sock \in Conns, rid \in RoomIdInputs, uname \in NameInputs, instr \in InstrumentInputs :
         (~Falsy(rid) /\ JoinRoom(sock, rid, uname, instr)) =>
            LET r == NormalizedId(rid)
                snap == getUsers(rooms', r)
                ems == emitted'
                JR == {i \in 1..Len(ems) : ems[i].name = "joined-room"}
                UJ == {i \in 1..Len(ems) : ems[i].name = "user-joined"}
            IN /\ Cardinality(JR) = 1
               /\ \A i \in JR : /\ ems[i].to = {sock}
                                /\ ems[i].payload.roomId = r
                                /\ ems[i].payload.users = snap
                                /\ sock \in Ids(ems[i].payload.users)
               /\ Cardinality(UJ) = 1
               /\ \A i \in UJ : /\ ems[i].to = MembersIn(rooms', r) \ {sock}
                                /\ ems[i].payload.user.id = sock
                                /\ ems[i].payload.user \in snap
                                /\ ems[i].payload.users = snap]_vars

\* a join has just been announced to another member of the room
C6_JoinAnnounced ==
    \E i, j \in 1..Len(emitted) :
        /\ emitted[i].name = "joined-room"
        /\ emitted[j].name = "user-joined"
        /\ emitted[j].to # {}
        /\ Cardinality(emitted[i].payload.users) >= 2

\* C7: when a member of room R disconnects, every remaining member of R
\* receives user-left naming it together with R's post-removal snapshot,
\* which no longer lists it; when a member of no room disconnects, nothing
\* is emitted and the registry is unchanged.
C7_DisconnectNotifies ==
    [][\A sock \in Conns :
         Disconnect(sock) =>
            IF \E r \in DOMAIN rooms : sock \in DOMAIN rooms[r]
            THEN \A r \in DOMAIN rooms :
                    sock \in DOMAIN rooms[r] =>
                       \A c \in DOMAIN rooms[r] \ {sock} :
                          \E i \in 1..Len(emitted') :
                             /\ emitted'[i].name = "user-left"
                             /\ c \in emitted'[i].to
                             /\ emitted'[i].payload.id = sock
                             /\ emitted'[i].payload.users = getUsers(rooms', r)
                             /\ Ids(emitted'[i].payload.users) = DOMAIN rooms[r] \ {sock}
            ELSE emitted' = << >> /\ rooms' = rooms]_vars

\* a departure has just been announced to a remaining member
C7_LeftAnnounced ==
    \E i \in 1..Len(emitted) :
        /\ emitted[i].name = "user-left"
        /\ status[emitted[i].payload.id] = "closed"
        /\ emitted[i].to # {}
        /\ emitted[i].payload.users # {}

\* C8: when a join-room moves a connection from room A to another room B,
\* user-left and A's post-removal snapshot go to the connections remaining
\* in A and to no one else; in particular not to the moving connection.
C8_SwitchNotifiesRemainingOnly ==
    [][\A sock \in Conns, rid \in RoomIdInputs, uname \in NameInputs, instr \in InstrumentInputs :
         ( /\ JoinRoom(sock, rid, uname, instr)
           /\ ~Falsy(rid)
           /\ joined[sock] # NoRoom
           /\ joined[sock] # NormalizedId(rid) ) =>
            LET A == joined[sock]
                ems == emitted'
                About == {i \in 1..Len(ems) : ems[i].room = A}
            IN /\ \E i \in About : ems[i].name = "user-left" /\ ems[i].payload.id = sock
               /\ \E i \in About : ems[i].name = "users-updated"
               /\ \A i \in About : ems[i].to = MembersIn(rooms, A) \ {sock}]_vars

\* C9: every participant list carried by a joined-room, user-joined,
\* users-updated or user-left event is the registry's participant set of
\* that room: exactly the current members, each with its current attributes.
C9_SnapshotsAreLive ==
    \A i \in 1..Len(emitted) :
        emitted[i].name \in PresenceEvents =>
            /\ emitted[i].payload.users = getUsers(rooms, emitted[i].room)
            /\ Ids(emitted[i].payload.users) = MembersIn(rooms, emitted[i].room)
            /\ \A u \in emitted[i].payload.users :
                  /\ u.username = sockData[u.id].username
                  /\ u.instrument = sockData[u.id].instrument

\* a snapshot of a room with two participants, one of them renamed, is out
C9_SnapshotSent ==
    \E i \in 1..Len(emitted) :
        /\ emitted[i].name = "users-updated"
        /\ Cardinality(emitted[i].payload.users) >= 2
        /\ \E u \in emitted[i].payload.users : u.username # DefaultName

----------------------------------------------------------------------------
(* Properties of the other relays *)

\* C1: each room's tracked participant set is exactly the set of connections
\* whose most recent accepted join-room named that room and that have not
\* disconnected since; a disconnected connection is listed in no room.
C1_RegistryMatchesJoins ==
    \A r \in RoomIds \cup DOMAIN rooms :
        MembersIn(rooms, r) = {c \in Conns : joined[c] = r}

\* C3: every connection is a participant of at most one room; a join-room
\* by a member of room A that names another room B takes it out of A
\* (deleting A if that empties it) and puts it into B.
C3_OneRoomPerConnection ==
    [][ /\ \A c \in Conns : Cardinality({r \in DOMAIN rooms' : c \in rooms'[r]}) <= 1
        /\ \A socket \in Conns, rid \in RoomIdInputs, uname \in NameInputs, instr \in InstrumentInputs :
              ( /\ JoinRoomSet(socket, rid, uname, instr)
                /\ ~Falsy(rid)
                /\ joined[socket] # NoRoom
                /\ joined[socket] # NormalizedId(rid) ) =>
                 /\ joined[socket] \in DOMAIN rooms' => socket \notin rooms'[joined[socket]]
                 /\ joined[socket] \in DOMAIN rooms' => rooms'[joined[socket]] # {}
                 /\ socket \in rooms'[NormalizedId(rid)] ]_vars

\* C4: a signal whose `to` names a connection is delivered to that
\* connection alone, and only if it is a current member of the room stated
\* in the message; otherwise nothing is delivered to anyone.
C4_DirectedSignalInRoomOnly ==
    [][\A socket \in Conns, m \in SignalSetInputs :
         (m.to \in Conns /\ SignalSet(socket, m.to, m.roomId, m.data)) =>
            /\ Delivered(emitted') \subseteq {m.to}
            /\ Delivered(emitted') # {} =>
                  (m.roomId \in DOMAIN rooms /\ m.to \in rooms[m.roomId])]_vars

----------------------------------------------------------------------------
(* Presence handlers with the delivery history recorded *)

\* history: one more presence handler has run and its events were delivered
Record ==
    /\ mut < MaxMut
    /\ mut' = mut + 1
    /\ inbox' = Deliver(inbox, emitted', mut')
    /\ UNCHANGED <<asked, fault, aside>>

InitOrder ==
    /\ variant \in {"map", "set"}
    /\ InitProg
    /\ InitHist

NextOrder ==
    \/ \E sock \in Conns : variant = "map" /\ Connect(sock) /\ UNCHANGED hist
    \/ \E sock \in Conns, rid \in RoomIdInputs, uname \in NameInputs, instr \in InstrumentInputs :
          variant = "map" /\ JoinRoom(sock, rid, uname, instr) /\ Record
    \/ \E sock \in Conns : variant = "map" /\ Disconnect(sock) /\ Record
    \/ \E socket \in Conns : variant = "set" /\ ConnectSet(socket) /\ UNCHANGED hist
    \/ \E socket \in Conns, rid \in RoomIdInputs, uname \in NameInputs, instr \in InstrumentInputs :
          variant = "set" /\ JoinRoomSet(socket, rid, uname, instr) /\ Record
    \/ \E socket \in Conns, flag \in FlagInputs :
          variant = "set" /\ ToggleAudioSet(socket, flag) /\ Record
    \/ \E socket \in Conns : variant = "set" /\ DisconnectSet(socket) /\ Record

SpecOrder == InitOrder /\ [][NextOrder]_vars

----------------------------------------------------------------------------
(* The signal relay of part_003 with session descriptions and with room ids *)
(* that are connection ids                                                  *)

RelaySignalInputs ==
    SignalInputs
    \cup {[to |-> Star, roomId |-> t, data |-> Candidate] : t \in Conns}
    \cup {[to |-> t, roomId |-> <<"A">>, data |-> d] : t \in Conns \cup {Star}, d \in {Offer, OfferNoOpus}}

InitRelay ==
    /\ variant = "map"
    /\ InitProg
    /\ InitHist

NextRelay ==
    \/ \E sock \in Conns : Connect(sock) /\ UNCHANGED hist
    \/ \E sock \in Conns, rid \in RoomIdInputs, uname \in {Undefined}, instr \in InstrumentInputs :
          JoinRoom(sock, rid, uname, instr) /\ UNCHANGED hist
    \/ \E sock \in Conns, m \in RelaySignalInputs :
          Signal(sock, m.to, m.roomId, m.data) /\ UNCHANGED hist
    \/ \E sock \in Conns : Disconnect(sock) /\ UNCHANGED hist

SpecRelay == InitRelay /\ [][NextRelay]_vars

\* how many of the emissions `ems` reach connection c
Receipts(ems, c) == Cardinality({i \in 1..Len(ems) : c \in ems[i].to})

\* C11: a signal that asks for broadcast to room R is delivered exactly once
\* to every current member of R other than the sender, never to the sender,
\* and to no connection outside R.
C11_BroadcastSignalToRoomOnly ==
    [][\A sock \in Conns, m \in RelaySignalInputs :
         (m.to = Star /\ ~Falsy(m.roomId) /\ m.data # NoData
            /\ Signal(sock, m.to, m.roomId, m.data)) =>
            /\ \A c \in MembersIn(rooms, m.roomId) \ {sock} : Receipts(emitted', c) = 1
            /\ Receipts(emitted', sock) = 0
            /\ Delivered(emitted') \subseteq MembersIn(rooms, m.roomId)]_vars

\* C12: every delivered signal that carries a session description carries
\* the normalizer's output for the text the sender supplied, and every
\* delivered ICE-candidate payload is the one the sender supplied.
C12_DeliveredSdpIsNormalized ==
    [][\A sock \in Conns, m \in RelaySignalInputs :
         Signal(sock, m.to, m.roomId, m.data) =>
            \A i \in 1..Len(emitted') :
               emitted'[i].name = "signal" =>
                  IF m.data.kind = "sdp"
                  THEN emitted'[i].payload.data.sdp = preferOpus(m.data.sdp)
                  ELSE emitted'[i].payload.data = m.data]_vars

----------------------------------------------------------------------------
(* The participant records of part_002 *)

\* signals addressed to a room
AudioSignalInputs == {[to |-> t, roomId |-> t, data |-> Candidate] : t \in RoomIds}

InitAudio ==
    /\ variant = "set"
    /\ InitProg
    /\ InitHist

NextAudio ==
    \/ \E socket \in Conns : ConnectSet(socket) /\ UNCHANGED hist
    \/ \E socket \in Conns, rid \in RoomIdInputs \ {Undefined}, uname \in {Undefined}, instr \in InstrumentInputs :
          JoinRoomSet(socket, rid, uname, instr) /\ UNCHANGED hist
    \/ \E socket \in Conns, flag \in FlagInputs : ToggleAudioSet(socket, flag) /\ UNCHANGED hist
    \/ \E socket \in Conns, ts \in {0} : PingSet(socket, ts) /\ UNCHANGED hist
    \/ \E socket \in Conns, m \in AudioSignalInputs :
          SignalSet(socket, m.to, m.roomId, m.data) /\ UNCHANGED hist
    \/ \E socket \in Conns : DisconnectSet(socket) /\ UNCHANGED hist

SpecAudio == InitAudio /\ [][NextAudio]_vars

\* C13: toggle-audio from connection c sets c's own audio-enabled flag to
\* the requested boolean and leaves every other participant's record, c's
\* own name and instrument, and every room's membership unchanged; c's flag
\* changes only in a step that handles a request of c itself.
C13_ToggleAudioOwnFlagOnly ==
    [][ /\ \A socket \in Conns, flag \in FlagInputs :
              ToggleAudioSet(socket, flag) =>
                 /\ sockData[socket].user # NoUser =>
                       sockData'[socket].user = [sockData[socket].user EXCEPT !.audioEnabled = flag]
                 /\ \A c \in Conns \ {socket} : sockData'[c] = sockData[c]
                 /\ rooms' = rooms
                 /\ sockRooms' = sockRooms
        /\ \A c \in Conns :
              ( /\ status[c] = "open" /\ status'[c] = "open"
                /\ sockData[c].user # NoUser
                /\ sockData'[c].user.audioEnabled # sockData[c].user.audioEnabled ) =>
                 \/ \E flag \in FlagInputs : ToggleAudioSet(c, flag)
                 \/ \E rid \in RoomIdInputs, instr \in InstrumentInputs :
                       JoinRoomSet(c, rid, Undefined, instr) ]_vars

\* a member has switched its audio on while another member's is still off
C13_OneFlagRaised ==
    \E i \in 1..Len(emitted) :
        /\ emitted[i].name = "users-updated"
        /\ \E u, v \in emitted[i].payload.users : u.audioEnabled /\ ~v.audioEnabled

----------------------------------------------------------------------------
(* Handlers, src/server.js: rooms are created over HTTP, `users` maps a     *)
(* socket id to its User.  rooms[r] = [users, maxUsers]; sockData[c].user   *)
(* is users.get(c).  A User is one object shared by `users` and the room's  *)
(* map, so a write to it shows in both.  User.latency is read by nothing    *)
(* and is left out.                                                         *)

DefaultMaxUsers == 8

MaxUsersInputs == {1, DefaultMaxUsers}

\* generateRoomId(): some 8 characters; which ones is up to Math.random()
LegacyRoomId(n) == <<"R", "O", "O", "M", "0", "0", "0", Digits[n]>>

LegacyRoomIds == {LegacyRoomId(1), LegacyRoomId(2)}

DefaultUnknown == <<"U", "n", "k", "n", "o", "w", "n">>

NoLegacyUser ==
    [id |-> Undefined, username |-> Undefined, instrument |-> Undefined,
     roomId |-> Undefined, audioEnabled |-> FALSE]

\* room.getUsers().map(u => ({ id, username, instrument, audioEnabled }))
roomUsers(room) ==
    {[id |-> room.users[k].id, username |-> room.users[k].username,
      instrument |-> room.users[k].instrument,
      audioEnabled |-> room.users[k].audioEnabled] : k \in DOMAIN room.users}

InitLegacy ==
    /\ variant = "legacy"
    /\ InitProg
    /\ InitHist

\* app.post('/api/rooms'); the id generateRoomId() draws is one not in use
\* (Math.random() repeating the id of a live room is left out)
CreateRoom(roomId, maxUsers) ==
    /\ roomId \notin DOMAIN rooms
    /\ rooms' = [r \in DOMAIN rooms \cup {roomId} |->
                   IF r = roomId THEN [users |-> << >>, maxUsers |-> maxUsers] ELSE rooms[r]]
    /\ emitted' = << >>
    /\ UNCHANGED <<variant, status, sockData, sockRooms, joined>>

ConnectLegacy(socket) ==
    /\ status[socket] = "idle"
    /\ status' = [status EXCEPT ![socket] = "open"]
    /\ sockData' = [sockData EXCEPT ![socket] = [user |-> NoLegacyUser]]
    /\ sockRooms' = [sockRooms EXCEPT ![socket] = <<socket>>]
    /\ emitted' = << >>
    /\ UNCHANGED <<variant, rooms, joined>>

JoinRoomLegacy(socket, roomId, username, instrument) ==
    /\ status[socket] = "open"
    /\ IF roomId \notin DOMAIN rooms
       THEN /\ emitted' = << Emit("error", {socket}, NoRoom, [message |-> "Room not found"]) >>
            /\ UNCHANGED <<variant, status, rooms, sockData, sockRooms, joined>>
       ELSE IF Cardinality(DOMAIN rooms[roomId].users) >= rooms[roomId].maxUsers
       THEN /\ emitted' = << Emit("error", {socket}, NoRoom, [message |-> "Room is full"]) >>
            /\ UNCHANGED <<variant, status, rooms, sockData, sockRooms, joined>>
       ELSE LET user == [id |-> socket, username |-> username,
                         instrument |-> IF Falsy(instrument) THEN DefaultUnknown ELSE instrument,
                         roomId |-> roomId, audioEnabled |-> TRUE]
                members == rooms[roomId].users
                rooms1 == [rooms EXCEPT ![roomId].users =
                             [k \in DOMAIN members \cup {socket} |->
                                IF k = socket THEN user ELSE members[k]]]
                sr1 == [sockRooms EXCEPT ![socket] = SockJoin(@, roomId)]
                users == roomUsers(rooms1[roomId])
            IN /\ rooms' = rooms1
               /\ sockData' = [sockData EXCEPT ![socket] = [user |-> user]]
               /\ sockRooms' = sr1
               /\ emitted' =
                    << Emit("user-joined", AdapterRoom(sr1, roomId), roomId,
                            [user |-> [id |-> socket, username |-> username,
                                       instrument |-> user.instrument],
                             users |-> users]),
                       Emit("joined-room", {socket}, roomId,
                            [roomId |-> roomId, userId |-> socket, users |-> users]) >>
               /\ joined' = [joined EXCEPT ![socket] = roomId]
               /\ UNCHANGED <<variant, status>>

\* socket.on('offer' | 'answer' | 'ice-candidate')
Forward(socket, ev, targetId, body) ==
    /\ status[socket] = "open"
    /\ emitted' = << Emit(ev, AdapterRoom(sockRooms, targetId) \ {socket}, NoRoom,
                          [senderId |-> socket, body |-> body]) >>
    /\ UNCHANGED <<variant, status, rooms, sockData, sockRooms, joined>>

ToggleAudioLegacy(socket, enabled) ==
    /\ status[socket] = "open"
    /\ LET user == sockData[socket].user
       IN IF user = NoLegacyUser
          THEN /\ emitted' = << >>
               /\ UNCHANGED <<rooms, sockData>>
          ELSE /\ sockData' = [sockData EXCEPT ![socket].user.audioEnabled = enabled]
               /\ IF user.roomId \in DOMAIN rooms
                  THEN /\ rooms' = IF socket \in DOMAIN rooms[user.roomId].users
                                   THEN [rooms EXCEPT ![user.roomId].users[socket].audioEnabled = enabled]
                                   ELSE rooms
                       /\ emitted' =
                            << Emit("user-audio-toggled",
                                    AdapterRoom(sockRooms, user.roomId) \ {socket}, user.roomId,
                                    [userId |-> socket, audioEnabled |-> enabled]) >>
                  ELSE /\ emitted' = << >>
                       /\ UNCHANGED rooms
    /\ UNCHANGED <<variant, status, sockRooms, joined>>

PingLegacy(socket, timestamp) ==
    /\ status[socket] = "open"
    /\ emitted' = << Emit("pong", {socket}, NoRoom, [ts |-> timestamp]) >>
    /\ UNCHANGED <<variant, status, rooms, sockData, sockRooms, joined>>

\* socket.on('chat-message') and socket.on('connection-quality')
ChatMessageLegacy(socket, message) ==
    /\ status[socket] = "open"
    /\ LET user == sockData[socket].user
       IN emitted' =
            IF user # NoLegacyUser /\ ~Falsy(user.roomId)
            THEN << Emit("chat-message", AdapterRoom(sockRooms, user.roomId), NoRoom,
                         [userId |-> socket, username |-> user.username, message |-> message]) >>
            ELSE << >>
    /\ UNCHANGED <<variant, status, rooms, sockData, sockRooms, joined>>

ConnectionQuality(socket, quality) ==
    /\ status[socket] = "open"
    /\ LET user == sockData[socket].user
       IN emitted' =
            IF user # NoLegacyUser
            THEN << Emit("peer-quality-update", AdapterRoom(sockRooms, user.roomId) \ {socket},
                         NoRoom, [userId |-> socket, quality |-> quality]) >>
            ELSE << >>
    /\ UNCHANGED <<variant, status, rooms, sockData, sockRooms, joined>>

DisconnectLegacy(socket) ==
    /\ status[socket] = "open"
    /\ status' = [status EXCEPT ![socket] = "closed"]
    /\ sockRooms' = [sockRooms EXCEPT ![socket] = << >>]
    /\ joined' = [joined EXCEPT ![socket] = NoRoom]
    /\ LET user == sockData[socket].user
           left == [sockRooms EXCEPT ![socket] = << >>]
       IN IF user # NoLegacyUser /\ ~Falsy(user.roomId) /\ user.roomId \in DOMAIN rooms
          THEN LET members == rooms[user.roomId].users
                   rest == [k \in DOMAIN members \ {socket} |-> members[k]]
               IN /\ rooms' = IF DOMAIN rest = {}
                              THEN [r \in DOMAIN rooms \ {user.roomId} |-> rooms[r]]
                              ELSE [rooms EXCEPT ![user.roomId].users = rest]
                  /\ emitted' = << Emit("user-left", AdapterRoom(left, user.roomId) \ {socket},
                                        user.roomId,
                                        [userId |-> socket, username |-> user.username]) >>
          ELSE /\ emitted' = << >>
               /\ UNCHANGED rooms
    /\ sockData' = [sockData EXCEPT ![socket] = << >>]
    /\ UNCHANGED variant

\* setInterval: an empty room older than 24 hours is removed
Cleanup(roomId) ==
    /\ roomId \in DOMAIN rooms
    /\ DOMAIN rooms[roomId].users = {}
    /\ rooms' = [r \in DOMAIN rooms \ {roomId} |-> rooms[r]]
    /\ emitted' = << >>
    /\ UNCHANGED <<variant, status, sockData, sockRooms, joined>>

\* one message per relayed event, to one connection or the other
ForwardInputs ==
    {[ev |-> "offer", targetId |-> Sid(1)], [ev |-> "answer", targetId |-> Sid(MaxConns)],
     [ev |-> "ice-candidate", targetId |-> Sid(1)]}

NextLegacy ==
    \/ \E roomId \in LegacyRoomIds, maxUsers \in MaxUsersInputs :
          CreateRoom(roomId, maxUsers) /\ UNCHANGED hist
    \/ \E socket \in Conns : ConnectLegacy(socket) /\ UNCHANGED hist
    \/ \E socket \in Conns, roomId \in LegacyRoomIds, username \in {<<"a", "n", "n">>},
          instrument \in InstrumentInputs :
          JoinRoomLegacy(socket, roomId, username, instrument) /\ UNCHANGED hist
    \/ \E socket \in Conns, m \in ForwardInputs :
          Forward(socket, m.ev, m.targetId, Candidate) /\ UNCHANGED hist
    \/ \E socket \in Conns, enabled \in FlagInputs :
          ToggleAudioLegacy(socket, enabled) /\ UNCHANGED hist
    \/ \E socket \in Conns, ts \in {0} : PingLegacy(socket, ts) /\ UNCHANGED hist
    \/ \E socket \in Conns : ChatMessageLegacy(socket, <<"h", "i">>) /\ UNCHANGED hist
    \/ \E socket \in Conns : ConnectionQuality(socket, "good") /\ UNCHANGED hist
    \/ \E socket \in Conns : DisconnectLegacy(socket) /\ UNCHANGED hist
    \/ \E roomId \in LegacyRoomIds : Cleanup(roomId) /\ UNCHANGED hist

SpecLegacy == InitLegacy /\ [][NextLegacy]_vars

\* the names of the events in the emissions `ems`
EventNames(ems) == {ems[i].name : i \in 1..Len(ems)}

\* C14: after a toggle-audio by a member of room R the updated snapshot of
\* R, showing the new flag, goes to every current member of R, the sender
\* included, and nothing goes to a connection outside R.
C14_ToggleAudioSnapshotToRoom ==
    [][\A socket \in Conns, enabled \in FlagInputs :
         ( /\ ToggleAudioLegacy(socket, enabled)
           /\ sockData[socket].user # NoLegacyUser
           /\ sockData[socket].user.roomId \in DOMAIN rooms ) =>
            LET R == sockData[socket].user.roomId
                members == DOMAIN rooms[R].users
            IN socket \in members =>
                 /\ \E i \in 1..Len(emitted') :
                       /\ "users" \in DOMAIN emitted'[i].payload
                       /\ emitted'[i].payload.users = roomUsers(rooms'[R])
                       /\ \E u \in emitted'[i].payload.users :
                             u.id = socket /\ u.audioEnabled = enabled
                       /\ emitted'[i].to = members
                 /\ Delivered(emitted') \subseteq members]_vars

\* C17: a join-room naming a room that is not in the registry creates the
\* room with the joiner as its only participant; the join is not rejected
\* because the room is unknown.
C17_JoinCreatesRoom ==
    [][\A socket \in Conns, roomId \in LegacyRoomIds, instrument \in InstrumentInputs :
         ( /\ roomId \notin DOMAIN rooms
           /\ JoinRoomLegacy(socket, roomId, <<"a", "n", "n">>, instrument) ) =>
            /\ roomId \in DOMAIN rooms'
            /\ DOMAIN rooms'[roomId].users = {socket}
            /\ "error" \notin EventNames(emitted')]_vars

----------------------------------------------------------------------------
(* join-room validation and normalization, part_003 and part_002 *)

Blank == <<" ">>

Id15 == <<"a", "b", "c", "1", "2", "3", "4", "5", "6", "7", "8", "9", "0", "1", "2">>

Id12 == <<"A", "B", "C", "1", "2", "3", "4", "5", "6", "7", "8", "9">>

LongName == [i \in 1..(MaxNameLen + 1) |-> "n"]

\* join-room messages: room ids absent, blank, of 15 and of 12 characters;
\* names and instruments absent, too long, and not a string
JoinInputs ==
    {[roomId |-> r, username |-> Undefined, instrument |-> Undefined] :
        r \in {Undefined, Blank, Id15, Id12, <<"b">>}}
    \cup {[roomId |-> Id12, username |-> u, instrument |-> Undefined] : u \in {LongName, NumberValue}}
    \cup {[roomId |-> Id12, username |-> <<"a", "n", "n">>, instrument |-> LongName]}

\* the join-room messages sent to part_002, which keeps names as they come
SetJoinInputs == {m \in JoinInputs : m.username = Undefined /\ m.roomId # <<"b">>}

\* history: the room id as the client wrote it, kept when the join is accepted
Asked(sock, rid) ==
    /\ asked' = IF "joined-room" \in EventNames(emitted') THEN [asked EXCEPT ![sock] = rid] ELSE asked
    /\ UNCHANGED <<inbox, mut, fault, aside>>

Forgotten(sock) ==
    /\ asked' = [asked EXCEPT ![sock] = << >>]
    /\ UNCHANGED <<inbox, mut, fault, aside>>

InitJoin ==
    /\ variant \in {"map", "set"}
    /\ InitProg
    /\ InitHist

NextJoin ==
    \/ \E sock \in Conns : variant = "map" /\ Connect(sock) /\ UNCHANGED hist
    \/ \E sock \in Conns, m \in JoinInputs :
          variant = "map" /\ JoinRoom(sock, m.roomId, m.username, m.instrument) /\ Asked(sock, m.roomId)
    \/ \E sock \in Conns : variant = "map" /\ Disconnect(sock) /\ Forgotten(sock)
    \/ \E socket \in Conns : variant = "set" /\ ConnectSet(socket) /\ UNCHANGED hist
    \/ \E socket \in Conns, m \in SetJoinInputs :
          variant = "set" /\ JoinRoomSet(socket, m.roomId, m.username, m.instrument)
             /\ Asked(socket, m.roomId)
    \/ \E socket \in Conns : variant = "set" /\ DisconnectSet(socket) /\ Forgotten(socket)

SpecJoin == InitJoin /\ [][NextJoin]_vars

Whitespace == {" ", "\t"}

\* absent, empty or made of whitespace only
IsBlank(s) == \A i \in 1..Len(s) : s[i] \in Whitespace

\* C15: a join-room whose room id is absent, empty or whitespace-only is
\* dropped: no room is created, nobody is added or moved, nothing is emitted.
C15_BlankRoomIdDropped ==
    [][\A sock \in Conns, m \in JoinInputs :
         ( /\ IsBlank(m.roomId)
           /\ \/ variant = "map" /\ JoinRoom(sock, m.roomId, m.username, m.instrument)
              \/ variant = "set" /\ JoinRoomSet(sock, m.roomId, m.username, m.instrument) ) =>
            /\ emitted' = << >>
            /\ rooms' = rooms
            /\ sockData' = sockData
            /\ sockRooms' = sockRooms]_vars

LowerOf(ch) ==
    CASE ch = "A" -> "a"
      [] ch = "B" -> "b"
      [] ch = "C" -> "c"
      [] OTHER -> ch

\* the first MaxRoomLen characters of an id, letter case put aside
Folded(rid) == [i \in 1..Min(Len(rid), MaxRoomLen) |-> LowerOf(rid[i])]

IsUpperCase(s) == \A i \in 1..Len(s) : UpperOf(s[i]) = s[i]

\* the participants of room r, whichever way the registry keeps them
Participants(r) ==
    IF r \notin DOMAIN rooms THEN {}
    ELSE IF variant = "set" THEN rooms[r] ELSE DOMAIN rooms[r]

\* C18: the room id under which a join is recorded, echoed in joined-room
\* and used as the registry key is the requested id in upper case cut to 12
\* characters; two joins whose ids agree on their first 12 characters, case
\* put aside, are in the same room; "abc123456789012" is recorded as
\* "ABC123456789".
C18_RoomIdNormalized ==
    /\ \A r \in DOMAIN rooms : Len(r) <= MaxRoomLen /\ IsUpperCase(r)
    /\ \A c \in Conns :
          joined[c] # NoRoom =>
             /\ Len(joined[c]) <= MaxRoomLen
             /\ IsUpperCase(joined[c])
             /\ Folded(joined[c]) = Folded(asked[c])
             /\ Len(joined[c]) = Min(Len(asked[c]), MaxRoomLen)
             /\ c \in Participants(joined[c])
             /\ asked[c] = Id15 => joined[c] = Id12
    /\ \A c, d \in Conns :
          (joined[c] # NoRoom /\ joined[d] # NoRoom /\ Folded(asked[c]) = Folded(asked[d])) =>
             joined[c] = joined[d]
    /\ \A i \in 1..Len(emitted) :
          emitted[i].name = "joined-room" =>
             \A c \in emitted[i].to : emitted[i].payload.roomId = joined[c]

\* two connections that asked for "abc123456789012" and for "ABC123456789"
\* are together in one room
C18_SameRoomTwoSpellings ==
    \E c, d \in Conns :
        /\ asked[c] = Id15
        /\ asked[d] = Id12
        /\ joined[c] = joined[d]
        /\ {c, d} \subseteq Participants(joined[c])

\* C19: a join-room with a valid room id is accepted whatever the display
\* name and instrument are: defaults when absent, truncation when too long,
\* and never a rejection or an error event.
C19_JoinAcceptsAnyName ==
    [][\A sock \in Conns, m \in JoinInputs :
         ( /\ variant = "map"
           /\ ~IsBlank(m.roomId)
           /\ JoinRoom(sock, m.roomId, m.username, m.instrument) ) =>
            /\ "error" \notin EventNames(emitted')
            /\ sock \in MembersIn(rooms', NormalizedId(m.roomId))
            /\ m.username # NumberValue =>
                  rooms'[NormalizedId(m.roomId)][sock].username =
                     (IF Falsy(m.username) THEN DefaultName ELSE Slice(m.username, MaxNameLen))
            /\ m.instrument # NumberValue =>
                  rooms'[NormalizedId(m.roomId)][sock].instrument =
                     (IF Falsy(m.instrument) THEN DefaultInstrument
                      ELSE Slice(m.instrument, MaxNameLen))]_vars

----------------------------------------------------------------------------
(* Messages without a payload, part_003 *)

\* the handlers whose parameter is an object pattern: ({ roomId, ... }) =>
DestructuringEvents == {"join-room", "roomcast", "chat-message", "signal"}

\* A client emits the event with no argument: binding the pattern to
\* undefined throws a TypeError before the first statement of the handler
\* (for join-room, before its try). The listener is called synchronously by
\* the socket, no 'uncaughtException' listener is installed, and node ends
\* the process: no later message is handled.
NoPayload(sock, evname) ==
    /\ status[sock] = "open"
    /\ evname \in DestructuringEvents
    /\ fault' = TRUE
    /\ emitted' = << >>
    /\ UNCHANGED <<variant, status, rooms, sockData, sockRooms, joined, inbox, mut, asked, aside>>

\* payloads that are objects with fields missing
PartialCasts == {[roomId |-> r, message |-> m] : r \in {Undefined, <<"A">>}, m \in {Undefined, <<"h", "i">>}}

PartialSignals ==
    {[to |-> Undefined, roomId |-> Undefined, data |-> Candidate],
     [to |-> Star, roomId |-> <<"A">>, data |-> NoData],
     [to |-> Star, roomId |-> <<"A">>, data |-> Candidate]}

InitFault ==
    /\ variant = "map"
    /\ InitProg
    /\ InitHist

\* the process handles messages as long as it has not been ended
Running == fault = FALSE

NextFault ==
    \/ \E sock \in Conns : Running /\ Connect(sock) /\ UNCHANGED hist
    \/ \E sock \in Conns, rid \in RoomIdInputs, uname \in {Undefined}, instr \in InstrumentInputs :
          Running /\ JoinRoom(sock, rid, uname, instr) /\ UNCHANGED hist
    \/ \E sock \in Conns, m \in PartialCasts :
          Running /\ Roomcast(sock, m.roomId, m.message) /\ UNCHANGED hist
    \/ \E sock \in Conns, m \in PartialSignals :
          Running /\ Signal(sock, m.to, m.roomId, m.data) /\ UNCHANGED hist
    \/ \E sock \in Conns : Running /\ Disconnect(sock) /\ UNCHANGED hist
    \/ \E sock \in Conns, evname \in DestructuringEvents : Running /\ NoPayload(sock, evname)

SpecFault == InitFault /\ [][NextFault]_vars

\* a join-room, roomcast or signal whose payload lacks a required field
Incomplete(sock) ==
    \/ \E uname \in {Undefined}, instr \in InstrumentInputs : JoinRoom(sock, Undefined, uname, instr)
    \/ \E m \in PartialCasts :
          (Falsy(m.roomId) \/ Falsy(m.message)) /\ Roomcast(sock, m.roomId, m.message)
    \/ \E m \in PartialSignals :
          (Falsy(m.roomId) \/ m.data = NoData) /\ Signal(sock, m.to, m.roomId, m.data)

\* C16: a message that arrives with no payload or with required fields
\* missing raises no unhandled fault, emits no event, and leaves the registry
\* and every connection as they were; the relay goes on handling messages.
C16_NoMessageIsFatal ==
    [][\A sock \in Conns :
         ( \/ Incomplete(sock) /\ UNCHANGED hist
           \/ \E evname \in DestructuringEvents : NoPayload(sock, evname) ) =>
            /\ fault' = FALSE
            /\ emitted' = << >>
            /\ UNCHANGED <<rooms, sockData, sockRooms, status>>]_vars

----------------------------------------------------------------------------
(* Room broadcast: roomcast of part_003 and of part_000 *)

\* socket.on("roomcast", ({ roomId, type, payload }) =>
\*    io.to(roomId).emit(type, { from: socket.id, payload }))
\* part_000 registers it next to the handlers it shares with part_002
RoomcastSet(socket, roomId, type, payload) ==
    /\ status[socket] = "open"
    /\ emitted' = << Emit(type, AdapterRoom(sockRooms, roomId), NoRoom,
                          [from |-> socket, payload |-> payload]) >>
    /\ UNCHANGED <<variant, status, rooms, sockData, sockRooms, joined>>

\* a text one character longer than the bound, and a short one
LongText == [i \in 1..(MaxMsgLen + 1) |-> "x"]

TextInputs == {<<"h", "i">>, LongText}

\* the event names a part_000 client chooses for its broadcast: one of its
\* own, and two that the relay itself emits
TypeInputs == {"note", "users-updated", "signal"}

InitCast ==
    /\ variant \in {"map", "set"}
    /\ InitProg
    /\ InitHist

NextCast ==
    \/ \E sock \in Conns : variant = "map" /\ Connect(sock) /\ UNCHANGED hist
    \/ \E sock \in Conns, rid \in RoomIdInputs, uname \in {Undefined}, instr \in InstrumentInputs :
          variant = "map" /\ JoinRoom(sock, rid, uname, instr) /\ UNCHANGED hist
    \/ \E sock \in Conns, roomId \in RoomIds, message \in TextInputs :
          variant = "map" /\ Roomcast(sock, roomId, message) /\ UNCHANGED hist
    \/ \E sock \in Conns, roomId \in RoomIds, message \in TextInputs :
          variant = "map" /\ ChatMessage(sock, roomId, message) /\ UNCHANGED hist
    \/ \E sock \in Conns : variant = "map" /\ Disconnect(sock) /\ UNCHANGED hist
    \/ \E socket \in Conns : variant = "set" /\ ConnectSet(socket) /\ UNCHANGED hist
    \/ \E socket \in Conns, rid \in RoomIdInputs \ {Undefined}, uname \in {Undefined}, instr \in InstrumentInputs :
          variant = "set" /\ JoinRoomSet(socket, rid, uname, instr) /\ UNCHANGED hist
    \/ \E socket \in Conns, roomId \in RoomIds, type \in TypeInputs, payload \in TextInputs :
          variant = "set" /\ RoomcastSet(socket, roomId, type, payload) /\ UNCHANGED hist
    \/ \E socket \in Conns : variant = "set" /\ DisconnectSet(socket) /\ UNCHANGED hist

SpecCast == InitCast /\ [][NextCast]_vars

\* the text a broadcast event carries
TextOf(e) == IF "message" \in DOMAIN e.payload THEN e.payload.message ELSE e.payload.payload

\* C20: a room broadcast naming room R reaches every current member of R and
\* nobody else, and the text it delivers is at most 240 characters long
\* whatever the sender supplied.
C20_RoomBroadcastBoundedToRoom ==
    [][\A sock \in Conns, roomId \in RoomIds, text \in TextInputs :
         ( \/ variant = "map" /\ Roomcast(sock, roomId, text)
           \/ variant = "map" /\ ChatMessage(sock, roomId, text)
           \/ \E type \in TypeInputs : variant = "set" /\ RoomcastSet(sock, roomId, type, text) ) =>
            /\ Delivered(emitted') = Participants(roomId)
            /\ \A i \in 1..Len(emitted') : Len(TextOf(emitted'[i])) <= MaxMsgLen]_vars

----------------------------------------------------------------------------
(* The SDP normalizer applied on its own: preferOpus of part_002, part_004  *)

MaxLines == 3
MaxApply == 2

Pt8 == <<"8">>
Pt11 == <<"1", "1">>
Pt96 == <<"9", "6">>

AudioLine == MLine("audio", "9", "UDP/TLS/RTP/SAVPF", <<Pt0, Pt111>>)

\* the lines descriptions are made of: audio lines listing opus second and
\* in the middle, a video line, mappings of opus to 111 and to 11 and of
\* PCMU, format-parameters lines for 111 with and without a packet time,
\* and an attribute that spells the audio line
SdpLines ==
    { AudioLine,
      MLine("audio", "9", "UDP/TLS/RTP/SAVPF", <<Pt8, Pt111, Pt0>>),
      MLine("video", "9", "UDP/TLS/RTP/SAVPF", <<Pt96>>),
      Rtpmap(Pt111, OpusCodec),
      Rtpmap(Pt11, OpusCodec),
      Rtpmap(Pt0, "PCMU/8000"),
      Fmtp(Pt111, << Param("minptime", "10"), Param("useinbandfec", "1") >>),
      Fmtp(Pt111, << Param("useinbandfec", "1") >>),
      Fmtp(Pt111, << Param("ptime", "20") >>),
      Attr("label:", AudioLine) }

SdpInputs == UNION {[1..n -> SdpLines] : n \in 0..MaxLines}

InitSdp ==
    /\ variant \in {"set", "harness"}
    /\ InitProg
    /\ InitRelayHist
    /\ sdpIn \in SdpInputs
    /\ sdpOut = << >>
    /\ test = NoTest

\* the text the next application is given
Current == IF sdpOut = << >> THEN sdpIn ELSE sdpOut[Len(sdpOut)]

\* data.sdp.sdp = preferOpus(data.sdp.sdp), on the text as it stands
Normalize ==
    /\ variant = "set"
    /\ Len(sdpOut) < MaxApply
    /\ sdpOut' = Append(sdpOut, preferOpus(Current))
    /\ UNCHANGED <<variant, status, rooms, sockData, sockRooms, emitted, joined,
                   inbox, mut, asked, fault, sdpIn, test>>

\* offer.sdp = preferOpus(offer.sdp) in the harness
NormalizeHarness ==
    /\ variant = "harness"
    /\ Len(sdpOut) < MaxApply
    /\ sdpOut' = Append(sdpOut, preferOpusHarness(Current))
    /\ UNCHANGED <<variant, status, rooms, sockData, sockRooms, emitted, joined,
                   inbox, mut, asked, fault, sdpIn, test>>

NextSdp ==
    \/ Normalize
    \/ NormalizeHarness

SpecSdp == InitSdp /\ [][NextSdp]_vars

\* the description has a line "m=audio ..."
HasAudio(x) == \E i \in 1..Len(x) : x[i].t = "m" /\ x[i].media = "audio"

\* the description has a line "a=rtpmap:<pt> opus/48000/2"
HasOpus(x) == \E i \in 1..Len(x) : x[i].t = "rtpmap" /\ x[i].codec = "opus/48000/2"

\* C21: the normalizer is idempotent: applied to its own result it returns
\* that result unchanged.
C21_NormalizeIdempotent ==
    Len(sdpOut) >= 2 => sdpOut[2] = sdpOut[1]

\* C22: a description with no audio media line, or with no payload-type
\* mapping of opus/48000/2, is returned unchanged.
C22_UnchangedWithoutAudioOrOpus ==
    (Len(sdpOut) >= 1 /\ (~HasAudio(sdpIn) \/ ~HasOpus(sdpIn))) => sdpOut[1] = sdpIn

\* a description with an audio line and mappings of other codecs only has
\* been normalized
C22_AudioWithoutOpusNormalized ==
    /\ Len(sdpOut) >= 1
    /\ HasAudio(sdpIn)
    /\ ~HasOpus(sdpIn)
    /\ \E i \in 1..Len(sdpIn) : sdpIn[i].t = "rtpmap"

\* the index of the first audio media line of x
FirstAudio(x) ==
    CHOOSE i \in 1..Len(x) :
        /\ x[i].t = "m" /\ x[i].media = "audio"
        /\ \A j \in 1..(i - 1) : ~(x[j].t = "m" /\ x[j].media = "audio")

\* the payload type the first opus/48000/2 mapping of x names
OpusPt(x) ==
    LET i == CHOOSE i \in 1..Len(x) :
                 /\ x[i].t = "rtpmap" /\ x[i].codec = "opus/48000/2"
                 /\ \A j \in 1..(i - 1) : ~(x[j].t = "rtpmap" /\ x[j].codec = "opus/48000/2")
    IN x[i].pt

\* C23: for a description with an audio media line and the opus mapping,
\* the normalized audio line keeps its first three fields, lists the opus
\* payload type first and once, then the other payload types in their
\* original order; the reordering changes no other line.
C23_OpusFirstOthersInOrder ==
    (Len(sdpOut) >= 1 /\ HasAudio(sdpIn) /\ HasOpus(sdpIn)) =>
       LET mi == FirstAudio(sdpIn)
           pt == OpusPt(sdpIn)
           old == sdpIn[mi]
           new == sdpOut[1][mi]
       IN /\ new.t = "m"
          /\ new.media = old.media /\ new.port = old.port /\ new.proto = old.proto
          /\ new.pts # << >>
          /\ new.pts[1] = pt
          /\ Cardinality({k \in 1..Len(new.pts) : new.pts[k] = pt}) = 1
          /\ Tail(new.pts) = SelectSeq(old.pts, LAMBDA x : x # pt)
          /\ \A i \in 1..Len(sdpIn) :
                (i # mi /\ sdpIn[i].t # "fmtp") => sdpOut[1][i] = sdpIn[i]

\* the format-parameters lines of x for payload type pt
FmtpFor(x, pt) == {i \in 1..Len(x) : x[i].t = "fmtp" /\ x[i].pt = pt}

\* the names of the parameters of a format-parameters line
Keys(l) == {l.params[k].k : k \in 1..Len(l.params)}

HasPtime10(l) == \E k \in 1..Len(l.params) : l.params[k] = [k |-> "ptime", v |-> "10"]

\* C24: after normalizing a description with an audio line and the opus
\* mapping for payload type P there are as many format-parameters lines for
\* P as before, or one if there was none, and one of them carries ptime=10:
\* a missing line is appended with the low-latency parameter set, a line
\* without a ptime parameter gets ptime=10 appended; format-parameters lines
\* of other payload types are not modified.
C24_FmtpCarriesPtime ==
    (Len(sdpOut) >= 1 /\ HasAudio(sdpIn) /\ HasOpus(sdpIn)) =>
       LET pt == OpusPt(sdpIn)
           before == FmtpFor(sdpIn, pt)
           after == FmtpFor(sdpOut[1], pt)
       IN /\ Cardinality(after) = (IF before = {} THEN 1 ELSE Cardinality(before))
          /\ \E i \in after : HasPtime10(sdpOut[1][i])
          /\ before = {} =>
                \E i \in after :
                    {"minptime", "useinbandfec", "cbr", "stereo", "ptime"} \subseteq Keys(sdpOut[1][i])
          /\ \A i \in before :
                sdpOut[1][i] = IF "ptime" \in Keys(sdpIn[i]) \/ \E j \in before : j < i
                               THEN sdpIn[i]
                               ELSE [sdpIn[i] EXCEPT !.params = Append(@, [k |-> "ptime", v |-> "10"])]
          /\ \A i \in 1..Len(sdpIn) :
                (sdpIn[i].t = "fmtp" /\ sdpIn[i].pt # pt) => sdpOut[1][i] = sdpIn[i]

----------------------------------------------------------------------------
(* The self-test harness, part_004, run against the relay of part_002       *)

Peers == {"A", "B"}

\* the connection of each synthetic peer
SockOf(p) == IF p = "A" THEN Sid(1) ELSE Sid(2)

Other(p) == IF p = "A" THEN "B" ELSE "A"

\* randomRoom(): "TEST" and six hexadecimal digits
TestRoom == <<"T", "E", "S", "T", "0", "0", "0", "0", "0", "0">>

NameOf(p) == <<"d", "i", "a", "g", p>>

Bot == <<"b", "o", "t">>

\* one report of pc.getStats(); bytesReceived may be missing from a report
Report(type, kind) == [type |-> type, kind |-> kind]

ReportBytes(type, kind, bytes, packets) ==
    [type |-> type, kind |-> kind, bytesReceived |-> bytes, packetsReceived |-> packets]

StatsInputs ==
    { << >>,
      << ReportBytes("inbound-rtp", "audio", 0, 0) >>,
      << ReportBytes("inbound-rtp", "audio", 5, 1), Report("inbound-rtp", "audio") >>,
      << ReportBytes("inbound-rtp", "video", 7, 1), Report("remote-inbound-rtp", "audio") >> }

\* summarize(stats, dir): bytes and packets summed over the inbound audio
\* reports (jitterMs and rttMs are copied from the reports and enter no test)
RECURSIVE summarize(_, _)
summarize(stats, dir) ==
    IF stats = << >> THEN [dir |-> dir, bytes |-> 0, packets |-> 0]
    ELSE LET r == stats[Len(stats)]
             out == summarize(SubSeq(stats, 1, Len(stats) - 1), dir)
         IN IF r.type = "inbound-rtp" /\ r.kind = "audio"
            THEN [out EXCEPT !.bytes = @ + (IF "bytesReceived" \in DOMAIN r THEN r.bytesReceived ELSE 0),
                             !.packets = @ + (IF "packetsReceived" \in DOMAIN r THEN r.packetsReceived ELSE 0)]
            ELSE out

\* a variant of the test that is content with one direction
OkEither(sumA, sumB) == sumA.bytes > 0 \/ sumB.bytes > 0

\* const ok = sumA.bytes > 0 && sumB.bytes > 0
Ok(sumA, sumB) == sumA.bytes > 0 /\ sumB.bytes > 0

NoteOf(ok) == IF ok THEN "media flowed (bytesReceived>0). Opus preferred, ptime=10."
              ELSE "no media counted; inspect signaling/ICE reachability"

\* the relay's variables, which the harness itself does not write
relay == <<variant, status, rooms, sockData, sockRooms, emitted, joined>>

\* what no step of the self-test touches
beside == <<inbox, mut, asked, fault, sdpIn, sdpOut>>

\* runSelfTest has been called: no peer exists yet
StartedTest ==
    [at |-> "connectA",
     sock |-> [p \in Peers |-> "none"],
     pc |-> [p \in Peers |-> "none"],
     track |-> [p \in Peers |-> FALSE],
     wire |-> {},
     got |-> {},
     stats |-> << >>,
     outcome |-> "running",
     result |-> << >>]

InitSelfTest ==
    /\ variant = "set"
    /\ InitProg
    /\ InitRelayHist
    /\ sdpIn = << >>
    /\ sdpOut = << >>
    /\ test = StartedTest

\* runSelfTest rejects: nothing after the failing await runs
Rejected(t, note) == [t EXCEPT !.at = "done", !.outcome = "rejected", !.result = << [error |-> note] >>]

\* ioc(serverUrl) connects: "connect" resolves the promise, the peer emits
\* join-room and builds its RTCPeerConnection
PeerConnected(p) ==
    /\ test.outcome = "running"
    /\ test.at = "connect" \o p
    /\ ConnectSet(SockOf(p))
    /\ test' = [test EXCEPT !.at = "setup" \o p,
                            !.sock[p] = "connected",
                            !.pc[p] = "open",
                            !.wire = @ \cup {"join" \o p}]
    /\ UNCHANGED beside

\* "connect_error" rejects the promise; the socket goes on trying to connect
PeerConnectError(p) ==
    /\ test.outcome = "running"
    /\ test.at = "connect" \o p
    /\ test' = Rejected([test EXCEPT !.sock[p] = "connecting"], "connect_error")
    /\ UNCHANGED <<relay, beside>>

\* await tx.sender.replaceTrack(...) resolves and createHeadlessPeer returns
PeerReady(p) ==
    /\ test.outcome = "running"
    /\ test.at = "setup" \o p
    /\ test' = [test EXCEPT !.at = IF p = "A" THEN "connectB" ELSE "offer"]
    /\ UNCHANGED <<relay, beside>>

\* await A.offerTo(B.sock.id): the munged offer is sent through the relay
OfferTo ==
    /\ test.outcome = "running"
    /\ test.at = "offer"
    /\ test' = [test EXCEPT !.at = "race", !.wire = @ \cup {"offer"}]
    /\ UNCHANGED <<relay, beside>>

\* a call on the transport rejects (replaceTrack, createOffer,
\* setLocalDescription, getStats): the await throws inside runSelfTest
TransportFails ==
    /\ test.outcome = "running"
    /\ test.at \in {"setupA", "setupB", "offer", "flow"}
    /\ test' = Rejected(test, "transport error")
    /\ UNCHANGED <<relay, beside>>

\* the relay handles the join-room of peer p
RelayJoin(p) ==
    /\ ("join" \o p) \in test.wire
    /\ JoinRoomSet(SockOf(p), TestRoom, NameOf(p), Bot)
    /\ test' = [test EXCEPT !.wire = @ \ {"join" \o p}]
    /\ UNCHANGED beside

\* the session description each signal carries
Described(m) == IF m = "offer" THEN SdpData("offer", preferOpusHarness(SdpOpusSecond))
                ELSE SdpData("answer", SdpOpusSecond)

Sender(m) == IF m = "offer" THEN "A" ELSE "B"

\* the relay handles a signal of the negotiation and forwards it
RelaySignal(m) ==
    /\ m \in test.wire \cap {"offer", "answer"}
    /\ SignalSet(SockOf(Sender(m)), SockOf(Other(Sender(m))), TestRoom, Described(m))
    /\ test' = [test EXCEPT !.wire = @ \ {m},
                            !.got = IF SockOf(Other(Sender(m))) \in Delivered(emitted')
                                    THEN @ \cup {m} ELSE @]
    /\ UNCHANGED beside

\* sock.on("signal"): setRemoteDescription fires pc.ontrack, which resolves
\* onTrackPromise; the peer that got the offer answers
Track(p) ==
    /\ test.at # "idle"
    /\ test.pc[p] = "open"
    /\ ~test.track[p]
    /\ (IF p = "B" THEN "offer" ELSE "answer") \in test.got
    /\ test' = [test EXCEPT !.track[p] = TRUE,
                            !.wire = IF p = "B" THEN @ \cup {"answer"} ELSE @]
    /\ UNCHANGED <<relay, beside>>

\* await Promise.race([A.onTrackPromise, B.onTrackPromise, raceTimeout])
\* settles with the first of the three
RaceResolves ==
    /\ test.outcome = "running"
    /\ test.at = "race"
    /\ \E p \in Peers : test.track[p]
    /\ test' = [test EXCEPT !.at = "flow"]
    /\ UNCHANGED <<relay, beside>>

\* setTimeout(() => rej(new Error("timeout waiting for tracks")), timeoutMs)
RaceTimeout ==
    /\ test.outcome = "running"
    /\ test.at = "race"
    /\ \A p \in Peers : ~test.track[p]
    /\ test' = Rejected(test, "timeout waiting for tracks")
    /\ UNCHANGED <<relay, beside>>

\* await sleep(1200); statsA = await A.pc.getStats(); statsB = ...
ReadStats(statsA, statsB) ==
    /\ test.outcome = "running"
    /\ test.at = "flow"
    /\ test' = [test EXCEPT !.at = "close", !.stats = <<statsA, statsB>>]
    /\ UNCHANGED <<relay, beside>>

\* summarize both, disconnect and close both peers, return the report
CloseAndReturn ==
    /\ test.outcome = "running"
    /\ test.at = "close"
    /\ LET sumA == summarize(test.stats[1], "A<-B")
           sumB == summarize(test.stats[2], "B<-A")
           ok == Ok(sumA, sumB)
       IN test' = [test EXCEPT !.at = "done",
                               !.outcome = "returned",
                               !.sock = [p \in Peers |-> "disconnected"],
                               !.pc = [p \in Peers |-> "closed"],
                               !.wire = @ \cup {"leaveA", "leaveB"},
                               !.result = << [ok |-> ok, room |-> TestRoom,
                                              summary |-> [A |-> sumA, B |-> sumB],
                                              note |-> NoteOf(ok)] >>]
    /\ UNCHANGED <<relay, beside>>

\* the relay sees the disconnection of peer p, after what p sent before it
RelayLeave(p) ==
    /\ ("leave" \o p) \in test.wire
    /\ ("join" \o p) \notin test.wire
    /\ (p = "B") => "answer" \notin test.wire
    /\ (p = "A") => "offer" \notin test.wire
    /\ DisconnectSet(SockOf(p))
    /\ test' = [test EXCEPT !.wire = @ \ {"leave" \o p}]
    /\ UNCHANGED beside

NextSelfTest ==
    \/ \E p \in Peers : PeerConnected(p)
    \/ \E p \in Peers : PeerConnectError(p)
    \/ \E p \in Peers : PeerReady(p)
    \/ OfferTo
    \/ TransportFails
    \/ \E p \in Peers : RelayJoin(p)
    \/ \E m \in {"offer", "answer"} : RelaySignal(m)
    \/ \E p \in Peers : Track(p)
    \/ RaceResolves
    \/ RaceTimeout
    \/ \E statsA, statsB \in StatsInputs : ReadStats(statsA, statsB)
    \/ CloseAndReturn
    \/ \E p \in Peers : RelayLeave(p)

SpecSelfTest == InitSelfTest /\ [][NextSelfTest]_vars

\* the bytes the inbound audio reports of one getStats() result add up to
RECURSIVE InboundBytes(_)
InboundBytes(stats) ==
    IF stats = << >> THEN 0
    ELSE (IF /\ Head(stats).type = "inbound-rtp"
             /\ Head(stats).kind = "audio"
             /\ "bytesReceived" \in DOMAIN Head(stats)
          THEN Head(stats).bytesReceived ELSE 0) + InboundBytes(Tail(stats))

\* C25: the report of runSelfTest has ok true exactly when both directions
\* counted a strictly positive number of received bytes; with zero bytes in
\* either direction it has ok false and the failure note.
C25_OkIffBothDirections ==
    test.outcome = "returned" =>
       LET r == test.result[1]
           bytesA == InboundBytes(test.stats[1])
           bytesB == InboundBytes(test.stats[2])
       IN /\ r.summary.A.bytes = bytesA
          /\ r.summary.B.bytes = bytesB
          /\ r.ok = (bytesA > 0 /\ bytesB > 0)
          /\ (bytesA = 0 \/ bytesB = 0) =>
                (r.ok = FALSE /\ r.note = "no media counted; inspect signaling/ICE reachability")
          /\ r.ok => r.note = "media flowed (bytesReceived>0). Opus preferred, ptime=10."

\* a run returned ok false although one direction received bytes
C25_OneDirectionOnly ==
    /\ test.outcome = "returned"
    /\ InboundBytes(test.stats[1]) > 0
    /\ InboundBytes(test.stats[2]) = 0
    /\ test.result[1].ok = FALSE

\* C26: whichever way runSelfTest fails (timeout, a peer that cannot
\* connect, a rejected transport call) it completes by returning a report
\* with ok false and a note, never by throwing or rejecting.
C26_FailureReturnsReport ==
    test.at = "done" =>
       /\ test.outcome = "returned"
       /\ "ok" \in DOMAIN test.result[1]
       /\ "note" \in DOMAIN test.result[1]

\* C27: when runSelfTest completes, every synthetic peer that was created
\* has its signaling channel disconnected and its peer connection closed,
\* and once the relay has handled what was sent no peer is left connected
\* or registered in the test room.
C27_PeersReleasedOnExit ==
    test.at = "done" =>
       \A p \in Peers :
          /\ test.sock[p] # "connected"
          /\ test.pc[p] # "open"
          /\ test.wire = {} =>
                (status[SockOf(p)] # "open" /\ SockOf(p) \notin Participants(TestRoom))

\* C28: runSelfTest goes past the wait for tracks, and reads statistics,
\* only when both peers have reported an inbound media stream.
C28_StatsAfterBothTracks ==
    [][(RaceResolves \/ \E statsA, statsB \in StatsInputs : ReadStats(statsA, statsB)) =>
          \A p \in Peers : test.track[p]]_vars

----------------------------------------------------------------------------
(* Who a signal reaches and whom it names, part_003 and part_002 *)

\* C29: a signal from s is delivered to t only if s and t are, at that
\* moment, participants of one room of the registry; the roomId field of
\* the message cannot take it to a room the sender does not occupy.
C29_SignalWithinSharedRoom ==
    [][\A sock \in Conns, m \in RelaySignalInputs :
         Signal(sock, m.to, m.roomId, m.data) =>
            \A t \in Delivered(emitted') \ {sock} :
               \E r \in DOMAIN rooms : {sock, t} \subseteq MembersIn(rooms, r)]_vars

\* a candidate whose sender wrote another connection's id into it
Forged(c) == [kind |-> "candidate", from |-> c]

FromInputs ==
    {[to |-> t, roomId |-> <<"A">>, data |-> d] :
        t \in Conns \cup {Star}, d \in {Candidate} \cup {Forged(c) : c \in Conns}}

\* the signals of part_002, addressed to a connection
FromSetInputs == {m \in FromInputs : m.to # Star}

InitFrom ==
    /\ variant \in {"map", "set"}
    /\ InitProg
    /\ InitHist

NextFrom ==
    \/ \E sock \in Conns : variant = "map" /\ Connect(sock) /\ UNCHANGED hist
    \/ \E sock \in Conns, rid \in {<<"a">>}, uname \in {Undefined}, instr \in InstrumentInputs :
          variant = "map" /\ JoinRoom(sock, rid, uname, instr) /\ UNCHANGED hist
    \/ \E sock \in Conns, m \in FromInputs :
          variant = "map" /\ Signal(sock, m.to, m.roomId, m.data) /\ UNCHANGED hist
    \/ \E sock \in Conns : variant = "map" /\ Disconnect(sock) /\ UNCHANGED hist
    \/ \E socket \in Conns : variant = "set" /\ ConnectSet(socket) /\ UNCHANGED hist
    \/ \E socket \in Conns, rid \in {<<"a">>}, uname \in {Undefined}, instr \in InstrumentInputs :
          variant = "set" /\ JoinRoomSet(socket, rid, uname, instr) /\ UNCHANGED hist
    \/ \E socket \in Conns, m \in FromSetInputs :
          variant = "set" /\ SignalSet(socket, m.to, m.roomId, m.data) /\ UNCHANGED hist
    \/ \E socket \in Conns : variant = "set" /\ DisconnectSet(socket) /\ UNCHANGED hist

SpecFrom == InitFrom /\ [][NextFrom]_vars

\* C30: the from field of every delivered signal is the id of the
\* connection whose message caused it, whatever the data of the message
\* holds; it is the same for every payload the sender could have chosen.
C30_FromIsSender ==
    [][\A sock \in Conns, m \in FromInputs :
         ( \/ variant = "map" /\ Signal(sock, m.to, m.roomId, m.data)
           \/ variant = "set" /\ SignalSet(sock, m.to, m.roomId, m.data) ) =>
            \A i \in 1..Len(emitted') :
               /\ emitted'[i].name = "signal"
               /\ emitted'[i].payload.from = sock]_vars

\* a signal was delivered whose data names a connection other than its sender
C30_ForgedDataDelivered ==
    \E i \in 1..Len(emitted) :
        /\ emitted[i].name = "signal"
        /\ emitted[i].to # {}
        /\ "from" \in DOMAIN emitted[i].payload.data
        /\ emitted[i].payload.data.from # emitted[i].payload.from

----------------------------------------------------------------------------
(* Event names a room broadcast can carry *)

\* the events the relay emits on its own account
ProtocolEvents == PresenceEvents \cup {"signal", "pong"}

\* C31: a room broadcast never makes a client receive an event named like
\* one of the relay's own events (joined-room, user-joined, users-updated,
\* user-left, signal, pong).
C31_RoomcastCannotForge ==
    [][\A sock \in Conns, roomId \in RoomIds, text \in TextInputs :
         ( \/ variant = "map" /\ Roomcast(sock, roomId, text)
           \/ variant = "map" /\ ChatMessage(sock, roomId, text)
           \/ \E type \in TypeInputs : variant = "set" /\ RoomcastSet(sock, roomId, type, text) ) =>
            \A i \in 1..Len(emitted') :
               emitted'[i].to # {} => emitted'[i].name \notin ProtocolEvents]_vars

----------------------------------------------------------------------------
(* Room ids as the clients spell them, part_003 *)

\* the spellings a client joins under: lower case, upper case, too long
SpelledIds == {<<"a">>, <<"A">>, Id15}

InitNames ==
    /\ variant = "map"
    /\ InitProg
    /\ InitHist

NextNames ==
    \/ \E sock \in Conns : Connect(sock) /\ UNCHANGED hist
    \/ \E sock \in Conns, rid \in SpelledIds, uname \in {Undefined}, instr \in InstrumentInputs :
          JoinRoom(sock, rid, uname, instr) /\ Asked(sock, rid)
    \/ \E sock \in Conns, to \in Conns, roomId \in SpelledIds :
          Signal(sock, to, roomId, Candidate) /\ UNCHANGED hist
    \/ \E sock \in Conns, roomId \in SpelledIds :
          Roomcast(sock, roomId, <<"h", "i">>) /\ UNCHANGED hist
    \/ \E sock \in Conns : Disconnect(sock) /\ Forgotten(sock)

SpecNames == InitNames /\ [][NextNames]_vars

\* C32: a signal or room broadcast that names the room by the string its
\* sender gave in its accepted join-room addresses the room the sender is
\* in: a directed signal reaches the fellow member it names, a broadcast
\* reaches every member.
C32_SameIdSameRoom ==
    [][\A sock \in Conns :
         joined[sock] # NoRoom =>
            /\ \A to \in MembersIn(rooms, joined[sock]) \ {sock} :
                  Signal(sock, to, asked[sock], Candidate) => to \in Delivered(emitted')
            /\ Roomcast(sock, asked[sock], <<"h", "i">>) =>
                  MembersIn(rooms, joined[sock]) \subseteq Delivered(emitted')]_vars

----------------------------------------------------------------------------
(* The users table and the rooms of src/server.js *)

\* C33: in server.js a connection id is in a room's users map only if the
\* users table holds a record for it whose roomId is that room; a
\* connection that has disconnected is listed in no room.
C33_UsersMatchRooms ==
    \A r \in DOMAIN rooms :
       \A c \in DOMAIN rooms[r].users :
          /\ status[c] = "open"
          /\ sockData[c].user.roomId = r

----------------------------------------------------------------------------
(* The self-test harness run against the relay of part_003 *)

InitHarness ==
    /\ variant = "map"
    /\ InitProg
    /\ InitRelayHist
    /\ sdpIn = << >>
    /\ sdpOut = << >>
    /\ test = StartedTest

\* as PeerConnected, with the connection handler of part_003
PeerConnectedMap(p) ==
    /\ test.outcome = "running"
    /\ test.at = "connect" \o p
    /\ Connect(SockOf(p))
    /\ test' = [test EXCEPT !.at = "setup" \o p,
                            !.sock[p] = "connected",
                            !.pc[p] = "open",
                            !.wire = @ \cup {"join" \o p}]
    /\ UNCHANGED beside

\* the relay handles the join-room of peer p
RelayJoinMap(p) ==
    /\ ("join" \o p) \in test.wire
    /\ JoinRoom(SockOf(p), TestRoom, NameOf(p), Bot)
    /\ test' = [test EXCEPT !.wire = @ \ {"join" \o p}]
    /\ UNCHANGED beside

\* the relay handles a signal of the negotiation: it reaches the partner
\* only if the partner's socket is in the test room by then
RelaySignalMap(m) ==
    /\ m \in test.wire \cap {"offer", "answer"}
    /\ Signal(SockOf(Sender(m)), SockOf(Other(Sender(m))), TestRoom, Described(m))
    /\ test' = [test EXCEPT !.wire = @ \ {m},
                            !.got = IF SockOf(Other(Sender(m))) \in Delivered(emitted')
                                    THEN @ \cup {m} ELSE @]
    /\ UNCHANGED beside

\* the relay sees the disconnection of peer p, after what p sent before it
RelayLeaveMap(p) ==
    /\ ("leave" \o p) \in test.wire
    /\ ("join" \o p) \notin test.wire
    /\ (p = "B") => "answer" \notin test.wire
    /\ (p = "A") => "offer" \notin test.wire
    /\ Disconnect(SockOf(p))
    /\ test' = [test EXCEPT !.wire = @ \ {"leave" \o p}]
    /\ UNCHANGED beside

NextHarness ==
    \/ \E p \in Peers : PeerConnectedMap(p)
    \/ \E p \in Peers : PeerConnectError(p)
    \/ \E p \in Peers : PeerReady(p)
    \/ OfferTo
    \/ TransportFails
    \/ \E p \in Peers : RelayJoinMap(p)
    \/ \E m \in {"offer", "answer"} : RelaySignalMap(m)
    \/ \E p \in Peers : Track(p)
    \/ RaceResolves
    \/ RaceTimeout
    \/ \E statsA, statsB \in StatsInputs : ReadStats(statsA, statsB)
    \/ CloseAndReturn
    \/ \E p \in Peers : RelayLeaveMap(p)

SpecHarness == InitHarness /\ [][NextHarness]_vars

\* C34: whatever the interleaving of the two peers' messages at the relay,
\* A's offer to B is handled only after B's join-room has been handled, so
\* it is never dropped for B not yet being in the test room.
C34_OfferAfterJoin ==
    [][RelaySignalMap("offer") =>
          /\ "joinB" \notin test.wire
          /\ SockOf("B") \in Delivered(emitted')]_vars

====
